---- MODULE Spec2Model ----
(***************************************************************************)
(* A model of lattice-db: the generational arena, the staged graph         *)
(* builder, the diff engine, the writer with its write-back index cache,   *)
(* and readers over snapshots of the committed tables.                     *)
(*                                                                         *)
(* Conventions.  Option<T> is a sequence of length at most one: None is    *)
(* <<>> and Some(x) is <<x>>.  Vec<T> is a sequence; indices of the source *)
(* are 0-based and the model adds one on access.  A table of the backing   *)
(* store and a HashMap are functions whose DOMAIN is the set of keys       *)
(* present.  A RoaringTreemap is the set of its members.  A u32 is a pair  *)
(* of 16-bit limbs <<hi, lo>> so that the generation counter keeps its     *)
(* width.                                                                  *)
(***************************************************************************)
EXTENDS Integers, Sequences, FiniteSets, TLC

VARIABLES
    gv,           \* SpecGenVec: a GenVec<u8> under test
    gv_issued,    \* SpecGenVec: the handles add has returned so far (tracked ones)
    gv_removed,   \* SpecGenVec: the handles for which remove returned Some
    gv_panicked,  \* SpecGenVec: the thread panicked on an arithmetic overflow
    gv_removals,  \* SpecGenVec: per slot, how many remove calls returned its item
                  \* (a count <<high, low 16 bits>> that does not wrap)
    db,           \* the committed tables of the backing store
    wr,           \* Option<LatticeWriter>: the open write transaction
    rd,           \* Option<LatticeReader>: the open read transaction
    bld,          \* the GraphBuilders the client holds
    nedit,        \* changes the client staged since the last commit
    begun,        \* the committed tables when the open writer began, else None
    ncommit,      \* number of write transactions committed so far
    last,         \* the last call whose outcome the client observed, else None
    retired,      \* history: vertex ids a commit removed from the persisted blobs
    prop_returned,\* history: property ids register_property has returned
    track,        \* history (SpecIds, SpecRefill): Option of the vertex ids the
                  \* save_graphs_parallel calls reserved and deleted, see Tracked
    qbuilder,     \* SpecQuery: the QueryBuilder the client holds
    pq,           \* SpecQuery: Option of what compile returned for qbuilder
    decompiled,   \* SpecQuery: Option of the PreparedQuery that qbuilder mirrors
    found,        \* SpecSearch: Option of [rt, results], the bitmaps search computed per node
    hash_in,      \* SpecHash: the pair of Primitives the client hashes
    hash_out,     \* SpecHash: Option of [ok, hash], what verify and hash returned for the pair
    par           \* SpecParallel: Option of the save_graphs_parallel call whose diff
                  \* workers run, or of the last one that returned, see ParBegin

gvVars == <<gv, gv_issued, gv_removed, gv_panicked, gv_removals>>
dbVars == <<db, wr, rd, bld, nedit, begun, ncommit>>
histVars == <<last, retired, prop_returned, track>>
qVars == <<qbuilder, pq, decompiled, found>>
hashVars == <<hash_in, hash_out>>
parVars == <<par>>
vars == <<gvVars, dbVars, histVars, qVars, hashVars, parVars>>

(***************************************************************************)
(* Bounds of the model.                                                    *)
(***************************************************************************)
GvMaxSlots == 2      \* SpecGenVec: slots of the arena under test
GvMaxGen == 2        \* SpecGenVec: removals explored past a slot's starting generation
MaxBuilders == 2     \* GraphBuilders the client holds at a time
MaxVertexSlots == 2  \* slots of a builder's vertex arena
MaxEdgeSlots == 2    \* slots of a builder's edge arena
MaxAttrs == 2        \* attributes of a staged vertex
MaxGen == 1          \* explicit removals per arena slot of a builder
MaxVertexIds == 3    \* global vertex ids a run hands out
MaxGraphs == 2       \* graph ids a run hands out
MaxProps == 2        \* property ids a run hands out
MaxQueries == 1      \* query ids a run hands out
MaxCommits == 2      \* write transactions a run commits
MaxEdits == 4        \* changes the client stages before the first commit
MaxReEdits == 2      \* changes the client stages between two later commits
MaxCalls == 5        \* SpecBuilder: builder calls of a run
MaxQueryNodes == 3   \* SpecQuery: nodes of the client's query builder
MaxSearchNodes == 4  \* SpecSearch: nodes of the client's query builder
MaxSearchVertices == 3  \* SpecSearch: vertex ids the SCALAR index lists
MaxHashInt == 13     \* SpecHash: largest low-56-bit part of an integer that is hashed

(***************************************************************************)
(* Option and Vec helpers.                                                 *)
(***************************************************************************)
None == <<>>
Some(x) == <<x>>
IsSome(o) == o /= <<>>
IsNone(o) == o = <<>>
Unwrap(o) == o[1]

\* Vec::pop: the vector without its last element
PopBack(s) == SubSeq(s, 1, Len(s) - 1)
Last(s) == s[Len(s)]

\* the set of elements of a sequence
Range(s) == {s[i] : i \in 1..Len(s)}

(***************************************************************************)
(* u32 arithmetic on 16-bit limbs.                                         *)
(***************************************************************************)
U16Max == 65535
U32Zero == <<0, 0>>
U32One == <<0, 1>>
U32Max == <<U16Max, U16Max>>
\* u32 `+= 1` with wrap-around (what a build without overflow checks computes)
U32WrappingInc(g) ==
    IF g[2] < U16Max THEN <<g[1], g[2] + 1>>
    ELSE IF g[1] < U16Max THEN <<g[1] + 1, 0>>
    ELSE U32Zero

(***************************************************************************)
(* utils/generational_vector.rs                                            *)
(***************************************************************************)
Handle(g, i) == [generation |-> g, index |-> i]
Slot(it, g) == [item |-> it, generation |-> g]

GenVec_new == [items |-> <<>>, freed |-> <<>>]

\* GenVec::add: returns the new vector and the handle
GenVec_add(self, item) ==
    IF self.freed /= <<>>
    THEN LET idx == Last(self.freed)
             slot == self.items[idx + 1]
         IN  [vec |-> [items |-> [self.items EXCEPT ![idx + 1].item = Some(item)],
                       freed |-> PopBack(self.freed)],
              handle |-> Handle(slot.generation, idx)]
    ELSE LET idx == Len(self.items)
         IN  [vec |-> [items |-> Append(self.items, Slot(Some(item), U32Zero)),
                       freed |-> self.freed],
              handle |-> Handle(U32Zero, idx)]

\* the handle passes the two early returns of remove / get / get_mut
GenVec_resolves(self, handle) ==
    /\ handle.index < Len(self.items)
    /\ self.items[handle.index + 1].generation = handle.generation

\* GenVec::remove reaches `slot.generation += 1` with the counter at u32::MAX
GenVec_remove_overflows(self, handle) ==
    /\ GenVec_resolves(self, handle)
    /\ self.items[handle.index + 1].generation = U32Max

\* GenVec::remove: returns the new vector and the Option<T> result
GenVec_remove(self, handle) ==
    IF ~GenVec_resolves(self, handle)
    THEN [vec |-> self, result |-> None]
    ELSE LET slot == self.items[handle.index + 1]
         IN  [vec |-> [items |-> [self.items EXCEPT ![handle.index + 1] =
                                     Slot(None, U32WrappingInc(slot.generation))],
                       freed |-> Append(self.freed, handle.index)],
              result |-> slot.item]

\* GenVec::get
GenVec_get(self, handle) ==
    IF ~GenVec_resolves(self, handle) THEN None
    ELSE self.items[handle.index + 1].item

\* GenVec::get_mut (the same lookup; the caller writes through the reference)
GenVec_get_mut(self, handle) ==
    IF handle.index >= Len(self.items) THEN None
    ELSE IF self.items[handle.index + 1].generation /= handle.generation THEN None
    ELSE self.items[handle.index + 1].item

\* an index-only accessor that finds no slot occupied
GenVec_get_index_none(self, idx) == None

\* GenVec::get_index / get_mut_index
GenVec_get_index(self, idx) ==
    IF idx >= Len(self.items) THEN None ELSE self.items[idx + 1].item

\* GenVec::iter_from: the (handle, item) pairs of the occupied slots from start_index on
GenVec_iter_from(self, start_index) ==
    LET F[i \in 0..Len(self.items)] ==
            IF i = 0 THEN <<>>
            ELSE IF i - 1 >= start_index /\ IsSome(self.items[i].item)
                 THEN Append(F[i - 1], <<Handle(self.items[i].generation, i - 1),
                                         Unwrap(self.items[i].item)>>)
                 ELSE F[i - 1]
    IN  F[Len(self.items)]

\* GenVec::iter
GenVec_iter(self) == GenVec_iter_from(self, 0)

\* writing through the reference get_mut returned
GenVec_set(self, handle, item) ==
    [self EXCEPT !.items[handle.index + 1].item = Some(item)]

(***************************************************************************)
(* utils/values.rs.  A u64 is the pair <<top byte, low 56 bits>>; a        *)
(* Primitive is [kind, n, t] with n used by UInt and t by Text.            *)
(***************************************************************************)
U64(hi, lo) == <<hi, lo>>
U64Less(a, b) == a[1] < b[1] \/ (a[1] = b[1] /\ a[2] < b[2])

UInt(n) == [kind |-> "UInt", n |-> n, t |-> ""]
Text(t) == [kind |-> "Text", n |-> U64(0, 0), t |-> t]

\* rapidhash_v3(t) & 0x00FFFFFFFFFFFFFF: the low 56 bits of the text's hash
RapidHash56(t) == CASE t = "a" -> 11 [] t = "b" -> 12 [] OTHER -> 13

\* a hash without the type tag in the top byte
Primitive_hash_untagged(p) == IF p.kind = "UInt" THEN p.n ELSE U64(0, RapidHash56(p.t))

\* Primitive::hash: n | (1 << 56), or the masked text hash | (2 << 56)
Primitive_hash(p) ==
    IF p.kind = "UInt"
    THEN U64(IF p.n[1] % 2 = 1 THEN p.n[1] ELSE p.n[1] + 1, p.n[2])
    ELSE U64(2, RapidHash56(p.t))

\* a verify that lets every value through
verify_accepts_all(p) == TRUE

\* Primitive::verify: TRUE for Ok, FALSE for NumberTooBig
Primitive_verify(p) == p.kind = "UInt" => p.n[1] = 0

\* the sort key of an attribute (attr.0, val.hash()) and its order
AttrKey(a) == <<a[1], Primitive_hash(a[2])>>
KeyLess(k1, k2) == k1[1] < k2[1] \/ (k1[1] = k2[1] /\ U64Less(k1[2], k2[2]))

\* sort_unstable_by_key(|(attr, val)| (attr.0, val.hash())), as an insertion sort
RECURSIVE InsertAttr(_, _)
InsertAttr(sorted, a) ==
    IF sorted = <<>> THEN <<a>>
    ELSE IF KeyLess(AttrKey(a), AttrKey(Head(sorted))) THEN <<a>> \o sorted
    ELSE <<Head(sorted)>> \o InsertAttr(Tail(sorted), a)

RECURSIVE SortAttrs(_)
SortAttrs(attrs) ==
    IF attrs = <<>> THEN <<>>
    ELSE InsertAttr(SortAttrs(PopBack(attrs)), Last(attrs))

(***************************************************************************)
(* graph/graph_builder.rs                                                  *)
(***************************************************************************)
VertexData(gid, attrs, inc, out) ==
    [global_id |-> gid, attributes |-> attrs, incoming_edges |-> inc, outgoing_edges |-> out]
EdgeData(from, to, label) == [from |-> from, to |-> to, label |-> label]

\* GraphBuilder::new
GraphBuilder_new ==
    [new_vertex_count |-> 0, old_graph_data |-> None,
     vertices |-> GenVec_new, edges |-> GenVec_new]

\* GraphBuilder::count_new_vertices
count_new_vertices(b) == b.new_vertex_count

\* GraphBuilder::new_vertex: the builder afterwards and the new handle
new_vertex(b) ==
    LET r == GenVec_add(b.vertices, VertexData(None, <<>>, <<>>, <<>>))
    IN  [b |-> [b EXCEPT !.new_vertex_count = @ + 1, !.vertices = r.vec],
         handle |-> r.handle]

\* Vec::iter().position(|p| *p == x): 0 when absent, else the 1-based place
Position(s, x) ==
    IF \E i \in 1..Len(s) : s[i] = x
    THEN CHOOSE i \in 1..Len(s) : s[i] = x /\ \A j \in 1..(i - 1) : s[j] /= x
    ELSE 0

\* Vec::swap_remove at the 1-based place i
SwapRemove(s, i) == PopBack([s EXCEPT ![i] = Last(s)])

\* GraphBuilder::remove_edge
remove_edge(b, handle) ==
    LET r == GenVec_remove(b.edges, handle)
    IN  IF IsNone(r.result) THEN [b |-> b, res |-> "EdgeNotFound"]
        ELSE
        LET edge == Unwrap(r.result)
            \* detach from source
            fromO == GenVec_get_mut(b.vertices, edge.from)
            v1 == IF IsSome(fromO) /\ Position(Unwrap(fromO).outgoing_edges, handle) > 0
                  THEN GenVec_set(b.vertices, edge.from,
                           [Unwrap(fromO) EXCEPT !.outgoing_edges =
                               SwapRemove(@, Position(@, handle))])
                  ELSE b.vertices
            \* detach from destination
            toO == GenVec_get_mut(v1, edge.to)
            v2 == IF IsSome(toO) /\ Position(Unwrap(toO).incoming_edges, handle) > 0
                  THEN GenVec_set(v1, edge.to,
                           [Unwrap(toO) EXCEPT !.incoming_edges =
                               SwapRemove(@, Position(@, handle))])
                  ELSE v1
        IN  [b |-> [b EXCEPT !.edges = r.vec, !.vertices = v2], res |-> "Ok"]

\* the loop `for edge in edges { let _ = self.remove_edge(edge); }`
RECURSIVE RemoveEdges(_, _)
RemoveEdges(b, edges) ==
    IF edges = <<>> THEN b
    ELSE RemoveEdges(remove_edge(b, Head(edges)).b, Tail(edges))

\* a remove_vertex that leaves the new-vertex counter alone
remove_vertex_keeps_count(b, handle) ==
    LET r == GenVec_remove(b.vertices, handle)
    IN  IF IsNone(r.result) THEN [b |-> b, res |-> "VertexNotFound"]
        ELSE [b |-> RemoveEdges([b EXCEPT !.vertices = r.vec],
                        Unwrap(r.result).incoming_edges \o Unwrap(r.result).outgoing_edges),
              res |-> "Ok"]

\* GraphBuilder::remove_vertex
remove_vertex(b, handle) ==
    LET r == GenVec_remove(b.vertices, handle)
    IN  IF IsNone(r.result) THEN [b |-> b, res |-> "VertexNotFound"]
        ELSE
        LET removed == Unwrap(r.result)
            b1 == [b EXCEPT !.vertices = r.vec,
                            !.new_vertex_count =
                                IF IsNone(removed.global_id) THEN @ - 1 ELSE @]
        IN  [b |-> RemoveEdges(b1, removed.incoming_edges \o removed.outgoing_edges),
             res |-> "Ok"]

\* GraphBuilder::new_edge (VertexBuilder::new_edge is the same with from = its own handle)
new_edge(b, from, label, to) ==
    IF IsNone(GenVec_get(b.vertices, from)) THEN [b |-> b, res |-> "VertexNotFound"]
    ELSE IF IsNone(GenVec_get_mut(b.vertices, to)) THEN [b |-> b, res |-> "VertexNotFound"]
    ELSE
    LET r == GenVec_add(b.edges, EdgeData(from, to, label))
        v1 == GenVec_set(b.vertices, to,
                  [Unwrap(GenVec_get_mut(b.vertices, to)) EXCEPT
                      !.incoming_edges = Append(@, r.handle)])
        v2 == GenVec_set(v1, from,
                  [Unwrap(GenVec_get_mut(v1, from)) EXCEPT
                      !.outgoing_edges = Append(@, r.handle)])
    IN  [b |-> [b EXCEPT !.edges = r.vec, !.vertices = v2], res |-> "Ok"]

\* GraphBuilder::edit_edge(handle)?.set_label(label)
set_label(b, handle, label) ==
    IF IsNone(GenVec_get(b.edges, handle)) THEN [b |-> b, res |-> "EdgeNotFound"]
    ELSE [b |-> [b EXCEPT !.edges = GenVec_set(@, handle,
                     [Unwrap(GenVec_get_mut(b.edges, handle)) EXCEPT !.label = label])],
          res |-> "Ok"]

\* GraphBuilder::edit_edge(edge)?.set_source(handle): the handle is looked up
\* in the edge arena, and the vertices' incoming/outgoing lists are left alone
set_source(b, edge, handle) ==
    IF IsNone(GenVec_get(b.edges, edge)) THEN [b |-> b, res |-> "EdgeNotFound"]
    ELSE IF IsNone(GenVec_get(b.edges, handle)) THEN [b |-> b, res |-> "VertexNotFound"]
    ELSE [b |-> [b EXCEPT !.edges = GenVec_set(@, edge,
                     [Unwrap(GenVec_get_mut(b.edges, edge)) EXCEPT !.from = handle])],
          res |-> "Ok"]

\* GraphBuilder::edit_edge(edge)?.set_destination(handle)
set_destination(b, edge, handle) ==
    IF IsNone(GenVec_get(b.edges, edge)) THEN [b |-> b, res |-> "EdgeNotFound"]
    ELSE IF IsNone(GenVec_get(b.edges, handle)) THEN [b |-> b, res |-> "VertexNotFound"]
    ELSE [b |-> [b EXCEPT !.edges = GenVec_set(@, edge,
                     [Unwrap(GenVec_get_mut(b.edges, edge)) EXCEPT !.to = handle])],
          res |-> "Ok"]

\* GraphBuilder::edit_vertex(handle)?.new_attribute(attr, value)
new_attribute(b, handle, attr, value) ==
    IF IsNone(GenVec_get(b.vertices, handle)) THEN [b |-> b, res |-> "VertexNotFound"]
    ELSE IF ~Primitive_verify(value) THEN [b |-> b, res |-> "NumberTooBig"]
    ELSE [b |-> [b EXCEPT !.vertices = GenVec_set(@, handle,
                     [Unwrap(GenVec_get_mut(b.vertices, handle)) EXCEPT
                         !.attributes = Append(@, <<attr, value>>)])],
          res |-> "Ok"]

\* Vec::remove at the 1-based place i
RemoveAt(s, i) == SubSeq(s, 1, i - 1) \o SubSeq(s, i + 1, Len(s))

\* GraphBuilder::get_mut_attributes(handle)?.remove(i): the client deletes the
\* attribute at 0-based place i through the mutable reference
remove_attribute(b, handle, i) ==
    IF IsNone(GenVec_get_mut(b.vertices, handle)) THEN [b |-> b, res |-> "VertexNotFound"]
    ELSE [b |-> [b EXCEPT !.vertices = GenVec_set(@, handle,
                     [Unwrap(GenVec_get_mut(b.vertices, handle)) EXCEPT
                         !.attributes = RemoveAt(@, i + 1)])],
          res |-> "Ok"]

\* GraphBuilder::get_mut_attributes(handle)?.push((attr, value)): the client
\* appends a pair through the mutable reference; nothing verifies the value
push_attribute(b, handle, attr, value) ==
    IF IsNone(GenVec_get_mut(b.vertices, handle)) THEN [b |-> b, res |-> "VertexNotFound"]
    ELSE [b |-> [b EXCEPT !.vertices = GenVec_set(@, handle,
                     [Unwrap(GenVec_get_mut(b.vertices, handle)) EXCEPT
                         !.attributes = Append(@, <<attr, value>>)])],
          res |-> "Ok"]

\* from_prepared, first loop: one arena slot per persisted vertex, in order
RECURSIVE LoadVertices(_, _)
LoadVertices(b, vs) ==
    IF vs = <<>> THEN b
    ELSE LoadVertices(
             [b EXCEPT !.vertices =
                 GenVec_add(@, VertexData(Some(Head(vs).id), Head(vs).attrs, <<>>, <<>>)).vec],
             Tail(vs))

\* an id_map that answers every id with the handle of the first vertex
IdMapFirst(vs, id) == Handle(U32Zero, 0)

\* from_prepared, id_map: the handle inserted last for a persisted id
IdMap(vs, id) ==
    LET i == CHOOSE i \in 1..Len(vs) :
                 vs[i].id = id /\ \A j \in (i + 1)..Len(vs) : vs[j].id /= id
    IN  Handle(U32Zero, i - 1)

\* a second loop that takes the endpoints of a persisted edge the wrong way round
RECURSIVE LoadEdgesReversed(_, _, _)
LoadEdgesReversed(b, vs, es) ==
    IF es = <<>> THEN b
    ELSE
    LET e == Head(es)
        from == IdMap(vs, e.to)
        to == IdMap(vs, e.from)
        r == GenVec_add(b.edges, EdgeData(from, to, e.label))
        v1 == GenVec_set(b.vertices, from,
                  [Unwrap(GenVec_get_mut(b.vertices, from)) EXCEPT
                      !.outgoing_edges = Append(@, r.handle)])
        v2 == GenVec_set(v1, to,
                  [Unwrap(GenVec_get_mut(v1, to)) EXCEPT
                      !.incoming_edges = Append(@, r.handle)])
    IN  LoadEdgesReversed([b EXCEPT !.edges = r.vec, !.vertices = v2], vs, Tail(es))

\* from_prepared, second loop: one arena slot per persisted edge, cross-linked
RECURSIVE LoadEdges(_, _, _)
LoadEdges(b, vs, es) ==
    IF es = <<>> THEN b
    ELSE
    LET e == Head(es)
        from == IdMap(vs, e.from)
        to == IdMap(vs, e.to)
        r == GenVec_add(b.edges, EdgeData(from, to, e.label))
        v1 == GenVec_set(b.vertices, from,
                  [Unwrap(GenVec_get_mut(b.vertices, from)) EXCEPT
                      !.outgoing_edges = Append(@, r.handle)])
        v2 == GenVec_set(v1, to,
                  [Unwrap(GenVec_get_mut(v1, to)) EXCEPT
                      !.incoming_edges = Append(@, r.handle)])
    IN  LoadEdges([b EXCEPT !.edges = r.vec, !.vertices = v2], vs, Tail(es))

\* GraphBuilder::from_prepared
from_prepared(graph) ==
    LET b1 == LoadVertices(GraphBuilder_new, graph.vertices)
        b2 == LoadEdges(b1, graph.vertices, graph.edges)
    IN  [b2 EXCEPT !.old_graph_data = Some([id |-> graph.id, graph |-> graph])]


(***************************************************************************)
(* Maps: tables of the backing store and HashMaps.                         *)
(***************************************************************************)
EmptyMap == [k \in {} |-> {}]
MapInsert(m, k, v) == [x \in DOMAIN m \cup {k} |-> IF x = k THEN v ELSE m[x]]
MapRemove(m, k) == [x \in DOMAIN m \ {k} |-> m[x]]
MapGet(m, k) == IF k \in DOMAIN m THEN Some(m[k]) ELSE None

(***************************************************************************)
(* graph/graph_prepared.rs: the diff engine.                               *)
(* A PreparedGraph is [id, vertices, edges]; a PreparedVertex [id, attrs]; *)
(* a PreparedEdge [from, label, to].  The serialized blob is modelled by   *)
(* the PreparedGraph it decodes to.  mem::take of a vertex's attributes is *)
(* not modelled: the builder is consumed and nothing reads them again.     *)
(***************************************************************************)
PreparedVertex(id, attrs) == [id |-> id, attrs |-> attrs]
PreparedEdge(from, label, to) == [from |-> from, label |-> label, to |-> to]
PreparedGraph(id, vertices, edges) == [id |-> id, vertices |-> vertices, edges |-> edges]

AttrDelta(gid, a) == <<gid, a[1], Primitive_hash(a[2])>>

\* the two-pointer walk over the old and the sorted new attributes (lines 105-141)
RECURSIVE MergeAttrs(_, _, _, _)
MergeAttrs(gid, old, new, acc) ==
    IF old = <<>> /\ new = <<>> THEN acc
    ELSE IF new = <<>>
    THEN MergeAttrs(gid, Tail(old), new,
             [acc EXCEPT !.rem_attrs = Append(@, AttrDelta(gid, Head(old)))])
    ELSE IF old = <<>>
    THEN MergeAttrs(gid, old, Tail(new),
             [acc EXCEPT !.add_attrs = Append(@, AttrDelta(gid, Head(new)))])
    ELSE IF AttrKey(Head(old)) = AttrKey(Head(new))
    THEN MergeAttrs(gid, Tail(old), Tail(new), acc)
    ELSE IF KeyLess(AttrKey(Head(old)), AttrKey(Head(new)))
    THEN MergeAttrs(gid, Tail(old), new,
             [acc EXCEPT !.rem_attrs = Append(@, AttrDelta(gid, Head(old)))])
    ELSE MergeAttrs(gid, old, Tail(new),
             [acc EXCEPT !.add_attrs = Append(@, AttrDelta(gid, Head(new)))])

\* the deltas `for (attr, value) in attrs { list.push((id, attr.0, value.hash())) }`
AttrDeltas(gid, attrs) == [i \in 1..Len(attrs) |-> AttrDelta(gid, attrs[i])]

\* a vertex that takes the next new global id (lines 157-167 and 175-188)
DiffNewVertex(idx, the_vertex, acc) ==
    LET new_attrs == SortAttrs(the_vertex.attributes)
    IN  [acc EXCEPT
            !.add_attrs = @ \o AttrDeltas(acc.cursor, new_attrs),
            !.idx_to_global = MapInsert(@, idx, acc.cursor),
            !.proc_vertices = Append(@, PreparedVertex(acc.cursor, new_attrs)),
            !.cursor = @ + 1]

\* a loop body that hands a continued vertex the next new global id
DiffOldVertexRenumbered(vertices, old_vertex, idx, acc) ==
    LET continued == GenVec_get_mut(vertices, Handle(U32Zero, idx))
    IN  IF IsSome(continued) THEN DiffNewVertex(idx, Unwrap(continued), acc)
        ELSE LET acc1 == [acc EXCEPT
                             !.deleted_vertices = Append(@, old_vertex.id),
                             !.rem_attrs = @ \o AttrDeltas(old_vertex.id, old_vertex.attrs)]
                 refill == GenVec_get_index(vertices, idx)
             IN  IF IsSome(refill) THEN DiffNewVertex(idx, Unwrap(refill), acc1) ELSE acc1

\* the body of the loop over the old vertices (lines 84-170), for position idx
DiffOldVertex(vertices, old_vertex, idx, acc) ==
    LET continued == GenVec_get_mut(vertices, Handle(U32Zero, idx))
    IN  IF IsSome(continued)
        THEN LET continued_vertex == Unwrap(continued)
                 global_id == Unwrap(continued_vertex.global_id)
             IN  IF continued_vertex.attributes = old_vertex.attrs
                 THEN \* vertex was unchanged
                      [acc EXCEPT
                          !.idx_to_global = MapInsert(@, idx, global_id),
                          !.proc_vertices = Append(@, PreparedVertex(global_id, old_vertex.attrs))]
                 ELSE \* vertex was changed
                      LET new_attrs == SortAttrs(continued_vertex.attributes)
                          merged == MergeAttrs(global_id, old_vertex.attrs, new_attrs, acc)
                      IN  [merged EXCEPT
                              !.idx_to_global = MapInsert(@, idx, global_id),
                              !.proc_vertices = Append(@, PreparedVertex(global_id, new_attrs))]
        ELSE \* vertex was deleted
             LET acc1 == [acc EXCEPT
                             !.deleted_vertices = Append(@, old_vertex.id),
                             !.rem_attrs = @ \o AttrDeltas(old_vertex.id, old_vertex.attrs)]
                 refill == GenVec_get_index(vertices, idx)
             IN  IF IsSome(refill) THEN DiffNewVertex(idx, Unwrap(refill), acc1) ELSE acc1

RECURSIVE DiffOldVertices(_, _, _, _)
DiffOldVertices(vertices, old_vertices, idx, acc) ==
    IF idx >= Len(old_vertices) THEN acc
    ELSE DiffOldVertices(vertices, old_vertices, idx + 1,
             DiffOldVertex(vertices, old_vertices[idx + 1], idx, acc))

\* the loop over vertices.iter_mut_from(new_vertices_start) (lines 174-189)
RECURSIVE DiffNewVertices(_, _)
DiffNewVertices(pairs, acc) ==
    IF pairs = <<>> THEN acc
    ELSE DiffNewVertices(Tail(pairs), DiffNewVertex(Head(pairs)[1].index, Head(pairs)[2], acc))

\* both `idx_to_global.get(..).expect(..)` of an edge succeed
EdgeResolves(acc, edge) ==
    edge.from.index \in DOMAIN acc.idx_to_global /\ edge.to.index \in DOMAIN acc.idx_to_global

\* an edge that is added to the index (lines 237-251 and 257-270)
DiffNewEdge(the_edge, acc) ==
    IF ~EdgeResolves(acc, the_edge) THEN [acc EXCEPT !.panic = TRUE]
    ELSE LET from == acc.idx_to_global[the_edge.from.index]
             to == acc.idx_to_global[the_edge.to.index]
         IN  [acc EXCEPT
                 !.add_edges = Append(@, <<from, the_edge.label, to>>),
                 !.proc_edges = Append(@, PreparedEdge(from, the_edge.label, to))]

\* the body of the loop over the old edges (lines 197-253), for position idx
DiffOldEdge(edges, old_edge, idx, acc) ==
    LET continued == GenVec_get(edges, Handle(U32Zero, idx))
    IN  IF IsSome(continued)
        THEN LET continued_edge == Unwrap(continued)
             IN  IF ~EdgeResolves(acc, continued_edge) THEN [acc EXCEPT !.panic = TRUE]
                 ELSE
                 LET from == acc.idx_to_global[continued_edge.from.index]
                     to == acc.idx_to_global[continued_edge.to.index]
                     current_label == continued_edge.label
                     unchanged == /\ from = old_edge.from
                                  /\ current_label = old_edge.label
                                  /\ to = old_edge.to
                 IN  IF unchanged
                     THEN [acc EXCEPT !.proc_edges = Append(@,
                               PreparedEdge(old_edge.from, old_edge.label, old_edge.to))]
                     ELSE [acc EXCEPT
                              !.rem_edges = Append(@, <<old_edge.from, old_edge.label, old_edge.to>>),
                              !.add_edges = Append(@, <<from, current_label, to>>),
                              !.proc_edges = Append(@, PreparedEdge(from, current_label, to))]
        ELSE \* edge was deleted
             LET acc1 == [acc EXCEPT !.rem_edges =
                             Append(@, <<old_edge.from, old_edge.label, old_edge.to>>)]
                 refill == GenVec_get_index(edges, idx)
             IN  IF IsSome(refill) THEN DiffNewEdge(Unwrap(refill), acc1) ELSE acc1

RECURSIVE DiffOldEdges(_, _, _, _)
DiffOldEdges(edges, old_edges, idx, acc) ==
    IF idx >= Len(old_edges) \/ acc.panic THEN acc
    ELSE DiffOldEdges(edges, old_edges, idx + 1,
             DiffOldEdge(edges, old_edges[idx + 1], idx, acc))

\* the loop over edges.iter_from(new_edges_start) (lines 257-270)
RECURSIVE DiffNewEdges(_, _)
DiffNewEdges(pairs, acc) ==
    IF pairs = <<>> \/ acc.panic THEN acc
    ELSE DiffNewEdges(Tail(pairs), DiffNewEdge(Head(pairs)[2], acc))

\* PreparedGraph::commit_data_from_builder: the GraphCommitData, or panic = TRUE
\* when an `expect` on idx_to_global fails
commit_data_from_builder(graph, start_id, graph_id) ==
    LET loaded == IsSome(graph.old_graph_data)
        old_vertices == IF loaded THEN Unwrap(graph.old_graph_data).graph.vertices ELSE <<>>
        old_edges == IF loaded THEN Unwrap(graph.old_graph_data).graph.edges ELSE <<>>
        acc0 == [cursor |-> start_id, panic |-> FALSE,
                 add_attrs |-> <<>>, rem_attrs |-> <<>>,
                 add_edges |-> <<>>, rem_edges |-> <<>>,
                 deleted_vertices |-> <<>>,
                 proc_vertices |-> <<>>, proc_edges |-> <<>>,
                 idx_to_global |-> EmptyMap]
        acc1 == DiffOldVertices(graph.vertices, old_vertices, 0, acc0)
        acc2 == DiffNewVertices(GenVec_iter_from(graph.vertices, Len(old_vertices)), acc1)
        acc3 == DiffOldEdges(graph.edges, old_edges, 0, acc2)
        acc4 == DiffNewEdges(GenVec_iter_from(graph.edges, Len(old_edges)), acc3)
    IN  [panic |-> acc4.panic,
         graph_id |-> graph_id,
         prepared_graph |-> PreparedGraph(graph_id, acc4.proc_vertices, acc4.proc_edges),
         add_attrs |-> acc4.add_attrs,
         rem_attrs |-> acc4.rem_attrs,
         add_edges |-> acc4.add_edges,
         rem_edges |-> acc4.rem_edges,
         deleted_vertices |-> acc4.deleted_vertices]


(***************************************************************************)
(* lattice_db/tables.rs, db.rs: the tables of the backing store.           *)
(***************************************************************************)
SEQ_GRAPH_ID == 1
SEQ_VERTEX_ID == 2
SEQ_PROPERTY_ID == 3
SEQ_QUERY_ID == 4

\* LatticeDb::create / init_tables: every table exists and is empty
init_tables ==
    [graphs |-> EmptyMap, vgmap |-> EmptyMap,
     scalar |-> EmptyMap, forward |-> EmptyMap, reverse |-> EmptyMap,
     sequences |-> EmptyMap,
     properties |-> EmptyMap, prop_names |-> EmptyMap,
     queries |-> EmptyMap, query_names |-> EmptyMap, query_metas |-> EmptyMap]

(***************************************************************************)
(* lattice_db/writer.rs                                                    *)
(***************************************************************************)
\* seq_table.get(tag)?.map(|v| v.value()).unwrap_or(0)
SeqOrZero(tables, tag) == IF tag \in DOMAIN tables.sequences THEN tables.sequences[tag] ELSE 0

\* a constructor that starts the vertex id cursor at 0 whatever SEQUENCES holds
LatticeWriter_new_vertex_cursor_zero(tables) ==
    [wt |-> tables,
     graph_id_cursor |-> SeqOrZero(tables, SEQ_GRAPH_ID),
     vertex_id_cursor |-> 0,
     property_id_cursor |-> SeqOrZero(tables, SEQ_PROPERTY_ID),
     query_id_cursor |-> SeqOrZero(tables, SEQ_QUERY_ID),
     scalar_cache |-> EmptyMap, forward_cache |-> EmptyMap, reverse_cache |-> EmptyMap]

\* LatticeWriter::new over a write transaction that starts from the committed tables
LatticeWriter_new(tables) ==
    [wt |-> tables,
     graph_id_cursor |-> SeqOrZero(tables, SEQ_GRAPH_ID),
     vertex_id_cursor |-> SeqOrZero(tables, SEQ_VERTEX_ID),
     property_id_cursor |-> SeqOrZero(tables, SEQ_PROPERTY_ID),
     query_id_cursor |-> SeqOrZero(tables, SEQ_QUERY_ID),
     scalar_cache |-> EmptyMap, forward_cache |-> EmptyMap, reverse_cache |-> EmptyMap]

\* a reservation that hands out the cursor and leaves it where it was
reserve_without_advance(w, count) == [w |-> w, id |-> w.vertex_id_cursor]

\* LatticeWriter::reserve_vertex_ids: the writer afterwards and the start of the range
reserve_vertex_ids(w, count) ==
    [w |-> [w EXCEPT !.vertex_id_cursor = @ + count], id |-> w.vertex_id_cursor]

\* the loop that reserves ids (lines 76-92): acc = [w, ids, new_vertex_count]
RECURSIVE ReserveIds(_, _)
ReserveIds(builders, acc) ==
    IF builders = <<>> THEN acc
    ELSE
    LET b == Head(builders)
        count == count_new_vertices(b)
        r == reserve_vertex_ids(acc.w, count)
        loaded == IsSome(b.old_graph_data)
        graph_id == IF loaded THEN Unwrap(b.old_graph_data).id ELSE r.w.graph_id_cursor
        w1 == IF loaded THEN r.w ELSE [r.w EXCEPT !.graph_id_cursor = @ + 1]
    IN  ReserveIds(Tail(builders),
            [w |-> w1,
             ids |-> Append(acc.ids, <<r.id, graph_id>>),
             new_vertex_count |-> Append(acc.new_vertex_count, count)])

\* a loop that maps no reserved id
InsertNoMappings(vg_map_table, ids, new_vertex_count, idx) == vg_map_table

\* the loop that maps the reserved ids to their graph (lines 99-103)
RECURSIVE InsertNewMappings(_, _, _, _)
InsertNewMappings(vg_map_table, ids, new_vertex_count, idx) ==
    IF idx > Len(ids) THEN vg_map_table
    ELSE
    LET start_id == ids[idx][1]
        graph_id == ids[idx][2]
        range == start_id..(start_id + new_vertex_count[idx] - 1)
    IN  InsertNewMappings(
            [v \in DOMAIN vg_map_table \cup range |->
                IF v \in range THEN graph_id ELSE vg_map_table[v]],
            ids, new_vertex_count, idx + 1)

\* LatticeWriter::update_bitmap: the cache afterwards; `table` is the index
\* table as the write transaction sees it
update_bitmap(table, cache, key, id, is_add) ==
    LET bitmap == IF key \in DOMAIN cache THEN cache[key]          \* cache hit
                  ELSE IF key \in DOMAIN table THEN table[key]     \* load from db
                  ELSE {}                                          \* a new bitmap
    IN  MapInsert(cache, key, IF is_add THEN bitmap \cup {id} ELSE bitmap \ {id})

\* for (vertex, property, hash) in attrs { update_bitmap(.., (property, hash), vertex, is_add) }
RECURSIVE ApplyAttrs(_, _, _, _)
ApplyAttrs(table, cache, attrs, is_add) ==
    IF attrs = <<>> THEN cache
    ELSE ApplyAttrs(table,
             update_bitmap(table, cache, <<Head(attrs)[2], Head(attrs)[3]>>, Head(attrs)[1], is_add),
             Tail(attrs), is_add)

\* for (from, label, to) in edges: the forward cache gets ((from, label), to)
RECURSIVE ApplyForward(_, _, _, _)
ApplyForward(table, cache, edges, is_add) ==
    IF edges = <<>> THEN cache
    ELSE ApplyForward(table,
             update_bitmap(table, cache, <<Head(edges)[1], Head(edges)[2]>>, Head(edges)[3], is_add),
             Tail(edges), is_add)

\* a fold that leaves the reverse index alone when edges are removed
ApplyReverseOnAddOnly(table, cache, edges, is_add) ==
    IF is_add
    THEN ApplyForward(table, cache,
             [i \in 1..Len(edges) |-> <<edges[i][3], edges[i][2], edges[i][1]>>], TRUE)
    ELSE cache

\* for (from, label, to) in edges: the reverse cache gets ((to, label), from)
RECURSIVE ApplyReverse(_, _, _, _)
ApplyReverse(table, cache, edges, is_add) ==
    IF edges = <<>> THEN cache
    ELSE ApplyReverse(table,
             update_bitmap(table, cache, <<Head(edges)[3], Head(edges)[2]>>, Head(edges)[1], is_add),
             Tail(edges), is_add)

\* vg_map_table.remove(v_id) for every deleted vertex (lines 126-128)
RemoveMappings(vg_map_table, deleted_vertices) ==
    [v \in DOMAIN vg_map_table \ Range(deleted_vertices) |-> vg_map_table[v]]

\* the body of the loop that folds one GraphCommitData into the writer (lines 119-187)
FoldCommitData(w, data) ==
    LET scalar1 == ApplyAttrs(w.wt.scalar, w.scalar_cache, data.add_attrs, TRUE)
        scalar2 == ApplyAttrs(w.wt.scalar, scalar1, data.rem_attrs, FALSE)
        forward1 == ApplyForward(w.wt.forward, w.forward_cache, data.add_edges, TRUE)
        forward2 == ApplyForward(w.wt.forward, forward1, data.rem_edges, FALSE)
        reverse1 == ApplyReverse(w.wt.reverse, w.reverse_cache, data.add_edges, TRUE)
        reverse2 == ApplyReverse(w.wt.reverse, reverse1, data.rem_edges, FALSE)
    IN  [w EXCEPT
            !.wt.graphs = MapInsert(@, data.graph_id, data.prepared_graph),
            !.wt.vgmap = RemoveMappings(@, data.deleted_vertices),
            !.scalar_cache = scalar2,
            !.forward_cache = forward2,
            !.reverse_cache = reverse2]

RECURSIVE FoldAll(_, _)
FoldAll(w, commit_data) ==
    IF commit_data = <<>> THEN w
    ELSE FoldAll(FoldCommitData(w, Head(commit_data)), Tail(commit_data))

\* LatticeWriter::save_graphs_parallel: the writer afterwards; res is "Panic"
\* when a diff worker panicked (the panic resumes on the calling thread once
\* the parallel map has finished, before anything is folded)
save_graphs_parallel(w, builders) ==
    LET r == ReserveIds(builders, [w |-> w, ids |-> <<>>, new_vertex_count |-> <<>>])
        w1 == [r.w EXCEPT !.wt.vgmap = InsertNewMappings(@, r.ids, r.new_vertex_count, 1)]
        commit_data == [i \in 1..Len(builders) |->
                           commit_data_from_builder(builders[i], r.ids[i][1], r.ids[i][2])]
    IN  IF \E i \in 1..Len(builders) : commit_data[i].panic
        THEN [w |-> w1, res |-> "Panic"]
        ELSE [w |-> FoldAll(w1, commit_data), res |-> "Ok"]

\* a commit that leaves the write-back cache behind
commit_cache_skipped(table, cache) == table

\* a commit that writes every cached bitmap, the empty ones too
commit_cache_writes_empty(table, cache) ==
    [k \in DOMAIN table \cup DOMAIN cache |-> IF k \in DOMAIN cache THEN cache[k] ELSE table[k]]

\* LatticeWriter::commit_cache: every cached key is written, an empty bitmap as
\* a removal (the keys are distinct, so the ascending order of the writes does
\* not show in the table)
commit_cache(table, cache) ==
    LET removed == {k \in DOMAIN cache : cache[k] = {}}
        written == DOMAIN cache \ removed
    IN  [k \in (DOMAIN table \ removed) \cup written |->
            IF k \in written THEN cache[k] ELSE table[k]]

\* a drop that lets the graph blobs staged in the write transaction through
abort_keeps_graphs(tables, w) == [tables EXCEPT !.graphs = w.wt.graphs]

\* a LatticeWriter dropped without commit: its WriteTransaction is dropped
\* with it and the store aborts it, so the committed tables stay
abort(tables, w) == tables

\* a commit that persists every cursor but the property id cursor
commit_without_property_cursor(w) ==
    LET t1 == [w.wt EXCEPT
                  !.scalar = commit_cache(@, w.scalar_cache),
                  !.forward = commit_cache(@, w.forward_cache),
                  !.reverse = commit_cache(@, w.reverse_cache)]
    IN  [t1 EXCEPT !.sequences =
            MapInsert(MapInsert(MapInsert(@,
                SEQ_GRAPH_ID, w.graph_id_cursor),
                SEQ_VERTEX_ID, w.vertex_id_cursor),
                SEQ_QUERY_ID, w.query_id_cursor)]

\* LatticeWriter::commit: the tables the write transaction commits
commit(w) ==
    LET t1 == [w.wt EXCEPT
                  !.scalar = commit_cache(@, w.scalar_cache),
                  !.forward = commit_cache(@, w.forward_cache),
                  !.reverse = commit_cache(@, w.reverse_cache)]
    IN  [t1 EXCEPT !.sequences =
            MapInsert(MapInsert(MapInsert(MapInsert(@,
                SEQ_GRAPH_ID, w.graph_id_cursor),
                SEQ_VERTEX_ID, w.vertex_id_cursor),
                SEQ_PROPERTY_ID, w.property_id_cursor),
                SEQ_QUERY_ID, w.query_id_cursor)]

(***************************************************************************)
(* props/properties.rs                                                     *)
(***************************************************************************)
\* a registration that binds the alias without the test for a collision
register_property_overwrites(w, alias, meta) ==
    LET id == w.property_id_cursor
        w1 == [w EXCEPT !.property_id_cursor = @ + 1]
        w2 == IF IsSome(alias)
              THEN [w1 EXCEPT !.wt.prop_names = MapInsert(@, Unwrap(alias), id)]
              ELSE w1
    IN  [w |-> [w2 EXCEPT !.wt.properties = MapInsert(@, id, meta)],
         res |-> "Ok", id |-> Some(id)]

\* LatticeWriter::register_property; alias is an Option<&str>
register_property(w, alias, meta) ==
    LET id == w.property_id_cursor
        w1 == [w EXCEPT !.property_id_cursor = @ + 1]
    IN  IF IsSome(alias) /\ Unwrap(alias) \in DOMAIN w1.wt.prop_names
        THEN [w |-> w1, res |-> "AliasAlreadyExists", id |-> None]
        ELSE LET w2 == IF IsSome(alias)
                       THEN [w1 EXCEPT !.wt.prop_names = MapInsert(@, Unwrap(alias), id)]
                       ELSE w1
             IN  [w |-> [w2 EXCEPT !.wt.properties = MapInsert(@, id, meta)],
                  res |-> "Ok", id |-> Some(id)]

(***************************************************************************)
(* lattice_db/reader.rs                                                    *)
(***************************************************************************)
\* LatticeDb::begin_read: the reader holds a snapshot of the committed tables
LatticeReader_new(tables) == [rt |-> tables]

\* a read that goes to the tables of the store as they are now
ReadCommitted(r, committed) == committed

\* what a table read through the reader's ReadTransaction returns while
\* `committed` are the tables of the store: the snapshot taken at begin_read
ReadTxnView(r, committed) == r.rt

\* LatticeReader::get_graph_ids_from_vertices
get_graph_ids_from_vertices(r, vertex_ids) ==
    [i \in 1..Len(vertex_ids) |-> MapGet(r.rt.vgmap, vertex_ids[i])]

\* LatticeReader::load_graph: res is "Ok" with the builder, or "GraphNotFound"
load_graph(r, graph_id) ==
    IF graph_id \notin DOMAIN r.rt.graphs
    THEN [res |-> "GraphNotFound", b |-> None]
    ELSE [res |-> "Ok", b |-> Some(from_prepared(r.rt.graphs[graph_id]))]


(***************************************************************************)
(* query/query_builder.rs.  A QueryNode and a compiled Node are records    *)
(* [kind, children, attr, value, dir, label, id]; a variant leaves the     *)
(* fields it does not have at their defaults.  Difference(a, b) has the    *)
(* children <<a, b>> and Edge { target } the children <<target>>.          *)
(***************************************************************************)
QNode(kind, children, attr, value, dir, label, id) ==
    [kind |-> kind, children |-> children, attr |-> attr, value |-> value,
     dir |-> dir, label |-> label, id |-> id]

QueryBuilder_new == [nodes |-> GenVec_new, root |-> None]

\* self.nodes.add(node), for the constructors below
AddQueryNode(qb, node) ==
    LET r == GenVec_add(qb.nodes, node)
    IN  [qb |-> [qb EXCEPT !.nodes = r.vec], res |-> "Ok", handle |-> Some(r.handle)]

QueryError(qb, e) == [qb |-> qb, res |-> e, handle |-> None]

\* QueryBuilder::match_attr
match_attr(qb, attr, value) ==
    IF ~Primitive_verify(value) THEN QueryError(qb, "NumberTooBig")
    ELSE AddQueryNode(qb, QNode("Attribute", <<>>, attr, value, "", 0, 0))

\* QueryBuilder::match_outgoing
match_outgoing(qb, label, subject) ==
    IF IsNone(GenVec_get(qb.nodes, subject)) THEN QueryError(qb, "EdgeNotFound")
    ELSE AddQueryNode(qb, QNode("Edge", <<subject>>, 0, U64(0, 0), "Outgoing", label, 0))

\* QueryBuilder::match_incoming
match_incoming(qb, label, target) ==
    IF IsNone(GenVec_get(qb.nodes, target)) THEN QueryError(qb, "EdgeNotFound")
    ELSE AddQueryNode(qb, QNode("Edge", <<target>>, 0, U64(0, 0), "Incoming", label, 0))

\* QueryBuilder::group_and
group_and(qb, children) ==
    IF \E i \in 1..Len(children) : IsNone(GenVec_get(qb.nodes, children[i]))
    THEN QueryError(qb, "EdgeNotFound")
    ELSE AddQueryNode(qb, QNode("Intersect", children, 0, U64(0, 0), "", 0, 0))

\* QueryBuilder::group_or
group_or(qb, children) ==
    IF \E i \in 1..Len(children) : IsNone(GenVec_get(qb.nodes, children[i]))
    THEN QueryError(qb, "EdgeNotFound")
    ELSE AddQueryNode(qb, QNode("Union", children, 0, U64(0, 0), "", 0, 0))

\* QueryBuilder::difference
difference(qb, include, exclude) ==
    IF IsNone(GenVec_get(qb.nodes, include)) \/ IsNone(GenVec_get(qb.nodes, exclude))
    THEN QueryError(qb, "EdgeNotFound")
    ELSE AddQueryNode(qb, QNode("Difference", <<include, exclude>>, 0, U64(0, 0), "", 0, 0))

\* QueryBuilder::set_root
set_root(qb, handle) == [qb EXCEPT !.root = Some(handle)]

(***************************************************************************)
(* query/query_prepared.rs: the compiler.                                  *)
(***************************************************************************)
\* the ascending sequence of the members of a finite set of numbers
RECURSIVE SortedSeq(_)
SortedSeq(S) ==
    IF S = {} THEN <<>>
    ELSE LET m == CHOOSE x \in S : \A y \in S : x <= y
         IN  <<m>> \o SortedSeq(S \ {m})

\* child ids left in the order of the builder's handles, duplicates included
KeepChildOrder(ids) == ids

\* ids.sort_unstable(); ids.dedup()
SortDedup(ids) == SortedSeq(Range(ids))

\* the while loop of get_build_order; visited holds the arena indices done
RECURSIVE BuildOrderLoop(_, _, _, _)
BuildOrderLoop(qb, stack, visited, order) ==
    IF stack = <<>> THEN order
    ELSE
    LET handle == Last(stack)[1]
        children_processed == Last(stack)[2]
        rest == PopBack(stack)
    IN  IF handle.index \in visited THEN BuildOrderLoop(qb, rest, visited, order)
        ELSE IF children_processed
        THEN BuildOrderLoop(qb, rest, visited \cup {handle.index}, Append(order, handle))
        ELSE
        LET node == GenVec_get(qb.nodes, handle)
            children == IF IsSome(node) THEN Unwrap(node).children ELSE <<>>
        IN  BuildOrderLoop(qb,
                Append(rest, <<handle, TRUE>>) \o
                    [i \in 1..Len(children) |-> <<children[i], FALSE>>],
                visited, order)

\* an order that lists every node of the arena by index, whatever the root
BuildOrderWholeArena(qb, root) ==
    [i \in 1..Len(qb.nodes.items) |-> Handle(qb.nodes.items[i].generation, i - 1)]

\* QueryBuilder::get_build_order
get_build_order(qb, root) == BuildOrderLoop(qb, <<<<root, FALSE>>>>, {}, <<>>)

\* a compiled node whose children are the arena indices of the builder's
\* children, not their places in the output
CompileNodeArenaIds(src_node, visited) ==
    LET ids == [i \in 1..Len(src_node.children) |-> src_node.children[i].index]
    IN  CASE src_node.kind \in {"Union", "Intersect"} ->
                 QNode(src_node.kind, SortDedup(ids), 0, U64(0, 0), "", 0, 0)
          [] src_node.kind = "Difference" ->
                 QNode("Difference", ids, 0, U64(0, 0), "", 0, 0)
          [] src_node.kind = "Attribute" ->
                 QNode("Attribute", <<>>, src_node.attr, Primitive_hash(src_node.value), "", 0, 0)
          [] src_node.kind = "Edge" ->
                 QNode("Edge", ids, 0, U64(0, 0), src_node.dir, src_node.label, 0)
          [] OTHER ->
                 QNode("SavedQuery", <<>>, 0, U64(0, 0), "", 0, src_node.id)

\* a compiled node whose Difference operands are put in ascending order,
\* as the children of a Union are
CompileNodeOrdersOperands(src_node, visited) ==
    LET ids == [i \in 1..Len(src_node.children) |-> visited[src_node.children[i].index]]
    IN  CASE src_node.kind \in {"Union", "Intersect"} ->
                 QNode(src_node.kind, SortDedup(ids), 0, U64(0, 0), "", 0, 0)
          [] src_node.kind = "Difference" ->
                 QNode("Difference",
                       IF ids[1] <= ids[2] THEN ids ELSE <<ids[2], ids[1]>>,
                       0, U64(0, 0), "", 0, 0)
          [] src_node.kind = "Attribute" ->
                 QNode("Attribute", <<>>, src_node.attr, Primitive_hash(src_node.value), "", 0, 0)
          [] src_node.kind = "Edge" ->
                 QNode("Edge", ids, 0, U64(0, 0), src_node.dir, src_node.label, 0)
          [] OTHER ->
                 QNode("SavedQuery", <<>>, 0, U64(0, 0), "", 0, src_node.id)

\* the node compiled from src_node, its children rewritten through visited
CompileNode(src_node, visited) ==
    LET ids == [i \in 1..Len(src_node.children) |-> visited[src_node.children[i].index]]
    IN  CASE src_node.kind \in {"Union", "Intersect"} ->
                 QNode(src_node.kind, SortDedup(ids), 0, U64(0, 0), "", 0, 0)
          [] src_node.kind = "Difference" ->
                 QNode("Difference", ids, 0, U64(0, 0), "", 0, 0)
          [] src_node.kind = "Attribute" ->
                 QNode("Attribute", <<>>, src_node.attr, Primitive_hash(src_node.value), "", 0, 0)
          [] src_node.kind = "Edge" ->
                 QNode("Edge", ids, 0, U64(0, 0), src_node.dir, src_node.label, 0)
          [] OTHER ->
                 QNode("SavedQuery", <<>>, 0, U64(0, 0), "", 0, src_node.id)

\* the loop of compile over build_order; acc = [res, output, visited]
RECURSIVE CompileLoop(_, _, _)
CompileLoop(qb, build_order, acc) ==
    IF build_order = <<>> \/ acc.res /= "Ok" THEN acc
    ELSE
    LET handle == Head(build_order)
        src == GenVec_get(qb.nodes, handle)
    IN  IF IsNone(src) THEN [acc EXCEPT !.res = "VertexNotFound"]
        ELSE IF \E i \in 1..Len(Unwrap(src).children) :
                    Unwrap(src).children[i].index \notin DOMAIN acc.visited
        THEN [acc EXCEPT !.res = "Panic"]          \* visited.get(..).unwrap()
        ELSE
        LET compiled_node == CompileNode(Unwrap(src), acc.visited)
            dup == Position(acc.output, compiled_node)   \* dup_cache.get(&compiled_node)
            idx == IF dup > 0 THEN dup - 1 ELSE Len(acc.output)
            output == IF dup > 0 THEN acc.output ELSE Append(acc.output, compiled_node)
        IN  CompileLoop(qb, Tail(build_order),
                [res |-> "Ok", output |-> output,
                 visited |-> MapInsert(acc.visited, handle.index, idx)])

NoQuery == [nodes |-> <<>>, root |-> 0]

\* QueryBuilder::compile: res and, when res is "Ok", the PreparedQuery [nodes, root]
compile(qb) ==
    IF IsNone(qb.root) THEN [res |-> "RootNotFound", query |-> NoQuery]
    ELSE
    LET root == Unwrap(qb.root)
        acc == CompileLoop(qb, get_build_order(qb, root),
                   [res |-> "Ok", output |-> <<>>, visited |-> EmptyMap])
    IN  IF acc.res /= "Ok" THEN [res |-> acc.res, query |-> NoQuery]
        ELSE IF root.index \notin DOMAIN acc.visited THEN [res |-> "Panic", query |-> NoQuery]
        ELSE [res |-> "Ok", query |-> [nodes |-> acc.output, root |-> acc.visited[root.index]]]

(***************************************************************************)
(* query/query_save.rs                                                     *)
(***************************************************************************)
\* LatticeWriter::save_query; alias is an Option<&str>
save_query(w, query, alias, meta) ==
    LET id == w.query_id_cursor
        w1 == [w EXCEPT !.query_id_cursor = @ + 1]
    IN  IF IsSome(alias) /\ Unwrap(alias) \in DOMAIN w1.wt.query_names
        THEN [w |-> w1, res |-> "AliasAlreadyExists"]
        ELSE
        LET w2 == IF IsSome(alias)
                  THEN [w1 EXCEPT !.wt.query_names = MapInsert(@, Unwrap(alias), id)]
                  ELSE w1
            w3 == [w2 EXCEPT !.wt.query_metas = MapInsert(@, id, meta)]
            c == compile(query)
        IN  IF c.res /= "Ok" THEN [w |-> w3, res |-> c.res]
            ELSE [w |-> [w3 EXCEPT !.wt.queries = MapInsert(@, id, c.query)], res |-> "Ok"]

(***************************************************************************)
(* lattice_db/reader.rs: the evaluator.                                    *)
(***************************************************************************)
QUERY_MATCH == -1    \* u64::MAX, the reserved property id

\* bitmaps.sort_by_key(|b| b.len()): a stable sort by cardinality
RECURSIVE InsertByLen(_, _)
InsertByLen(sorted, b) ==
    IF sorted = <<>> THEN <<b>>
    ELSE IF Cardinality(b) < Cardinality(Head(sorted)) THEN <<b>> \o sorted
    ELSE <<Head(sorted)>> \o InsertByLen(Tail(sorted), b)

RECURSIVE SortByLen(_)
SortByLen(bitmaps) ==
    IF bitmaps = <<>> THEN <<>>
    ELSE InsertByLen(SortByLen(PopBack(bitmaps)), Last(bitmaps))

\* a loop that returns the seed bitmap and ANDs nothing into it
IntersectLoopSeedOnly(res, others) == res

\* for other in &bitmaps[1..] { res &= other; if res.is_empty() { break; } }
RECURSIVE IntersectLoop(_, _)
IntersectLoop(res, others) ==
    IF others = <<>> THEN res
    ELSE LET r == res \cap Head(others)
         IN  IF r = {} THEN r ELSE IntersectLoop(r, Tail(others))

\* a collection that stops after the first child
ChildBitmapsFirstOnly(children, results) ==
    IF children = <<>> \/ Head(children) \notin DOMAIN results THEN <<>>
    ELSE <<results[Head(children)]>>

\* children.iter().filter_map(|id| results.get(id))
RECURSIVE ChildBitmaps(_, _)
ChildBitmaps(children, results) ==
    IF children = <<>> THEN <<>>
    ELSE IF Head(children) \in DOMAIN results
         THEN <<results[Head(children)]>> \o ChildBitmaps(Tail(children), results)
         ELSE ChildBitmaps(Tail(children), results)

\* the bitmap of one node of the plan, given the results so far
EvalNode(rt, node, results) ==
    CASE node.kind = "Union" ->
             UNION Range(ChildBitmaps(node.children, results))
      [] node.kind = "Intersect" ->
             LET bitmaps == SortByLen(ChildBitmaps(node.children, results))
             IN  IF bitmaps = <<>> THEN {}
                 ELSE IntersectLoop(Head(bitmaps), Tail(bitmaps))
      [] node.kind = "Difference" ->
             results[node.children[1]] \ results[node.children[2]]
      [] node.kind = "Attribute" ->
             LET key == <<node.attr, node.value>>
             IN  IF key \in DOMAIN rt.scalar THEN rt.scalar[key] ELSE {}
      [] node.kind = "Edge" ->
             LET table == IF node.dir = "Outgoing" THEN rt.forward ELSE rt.reverse
             IN  UNION {table[<<id, node.label>>] :
                            id \in {x \in results[node.children[1]] :
                                        <<x, node.label>> \in DOMAIN table}}
      [] OTHER ->
             LET key == <<QUERY_MATCH, node.id>>
             IN  IF key \in DOMAIN rt.scalar THEN rt.scalar[key] ELSE {}

\* the loop of search over query.nodes
RECURSIVE SearchLoop(_, _, _, _)
SearchLoop(rt, nodes, idx, results) ==
    IF idx >= Len(nodes) THEN results
    ELSE SearchLoop(rt, nodes, idx + 1,
             MapInsert(results, idx, EvalNode(rt, nodes[idx + 1], results)))

\* LatticeReader::search: the ascending vector of the root's bitmap
search(r, query) ==
    LET results == SearchLoop(r.rt, query.nodes, 0, EmptyMap)
    IN  SortedSeq(IF query.root \in DOMAIN results THEN results[query.root] ELSE {})


(***************************************************************************)
(* A client of the database.  It holds up to MaxBuilders graph builders,   *)
(* one write transaction at a time (the backing store serializes writers)  *)
(* and one reader, and it stages at most EditBudget changes between two    *)
(* commits.  The specifications share its actions: Spec (write             *)
(* transactions over all the tables), SpecReaders (readers held across     *)
(* commits), SpecEdges and SpecAttrs (the edge and the attribute methods   *)
(* of the builder, with a second copy of a loaded graph), SpecDiff (saves  *)
(* of loaded graphs), SpecIds (vertex ids over a store that holds a        *)
(* vertex), SpecRefill (freed slots of a loaded graph filled again),      *)
(* SpecParallel (the diff workers of a save one by one), SpecBuilder       *)
(* (calls on one builder, errors included), SpecAccess (attributes         *)
(* written through get_mut_attributes), SpecQuery (the query builder and   *)
(* its compiler), SpecSearch and SpecMeaning (searches over an index) and  *)
(* SpecHash (verify and hash of pairs of values).                          *)
(***************************************************************************)
\* the property handle of the attributes, and those of the edge labels
AttrProps == {0}
Labels == {0, 1}
\* values the client passes to new_attribute
AttrValues == {UInt(U64(0, 1)), UInt(U64(0, 2))}
Aliases == {None, Some("a")}
\* a query builder with no root, and one whose root matches an attribute
QueryNoRoot == match_attr(QueryBuilder_new, 0, UInt(U64(0, 1))).qb
QueryAttr(p, v) ==
    LET r == match_attr(QueryBuilder_new, p, v)
    IN  set_root(r.qb, Unwrap(r.handle))
QueryInputs == {QueryNoRoot} \cup {QueryAttr(0, v) : v \in AttrValues}

\* the handles a client may hold for an arena of a builder
HandleInputs(slots) == {Handle(<<0, g>>, i) : g \in 0..MaxGen, i \in 0..(slots - 1)}
GenInBound(g) == g[1] = 0 /\ g[2] < MaxGen

DbInit ==
    /\ db = init_tables
    /\ wr = None
    /\ rd = None
    /\ bld = [k \in 1..MaxBuilders |-> None]
    /\ nedit = 0
    /\ begun = None
    /\ ncommit = 0
    /\ last = None
    /\ retired = {}
    /\ prop_returned = {}
    /\ track = None

\* the client holds an empty query builder
QIdle ==
    /\ qbuilder = QueryBuilder_new
    /\ pq = None
    /\ decompiled = None
    /\ found = None

GvIdle ==
    /\ gv = GenVec_new
    /\ gv_removals = <<>>
    /\ gv_issued = {}
    /\ gv_removed = {}
    /\ gv_panicked = FALSE

\* no value has been hashed
HashIdle == hash_in = <<>> /\ hash_out = None
ParIdle == par = None

Init == DbInit /\ GvIdle /\ QIdle /\ HashIdle /\ ParIdle

\* the changes the client may stage before its next commit: edits of its
\* builders, properties and queries
EditBudget == IF ncommit = 0 THEN MaxEdits ELSE MaxReEdits

\* the client replaces builder k by the outcome of a builder operation that
\* returned Ok (a call that returns an error leaves the builder as it was).
\* The client edits its builders between write transactions: a builder
\* operation reads and writes the builder alone, so a run that edits while a
\* writer is open has the same outcome as the run that edits just before
\* begin_write.
EditBuilder(k, r) ==
    /\ wr = None
    /\ ncommit < MaxCommits
    /\ nedit < EditBudget
    /\ r.res = "Ok"
    /\ bld' = [bld EXCEPT ![k] = Some(r.b)]
    /\ nedit' = nedit + 1
    /\ UNCHANGED <<db, wr, rd, ncommit, begun, gvVars, histVars, qVars, hashVars, parVars>>

\* the client puts a builder into its empty slot k
PutBuilder(k, r) ==
    /\ wr = None
    /\ ncommit < MaxCommits
    /\ bld[k] = None
    /\ r.res = "Ok"
    /\ bld' = [bld EXCEPT ![k] = Some(r.b)]
    /\ UNCHANGED <<db, wr, rd, nedit, ncommit, begun, gvVars, histVars, qVars, hashVars, parVars>>

NewBuilder(k) ==
    /\ \A j \in 1..(k - 1) : IsSome(bld[j])
    /\ PutBuilder(k, [b |-> GraphBuilder_new, res |-> "Ok"])

NewVertex(k) ==
    /\ IsSome(bld[k])
    /\ LET b == Unwrap(bld[k])
       IN  /\ b.vertices.freed /= <<>> \/ Len(b.vertices.items) < MaxVertexSlots
           /\ EditBuilder(k, [b |-> new_vertex(b).b, res |-> "Ok"])

RemoveVertex(k, h) ==
    /\ IsSome(bld[k])
    /\ GenInBound(h.generation)
    /\ EditBuilder(k, remove_vertex(Unwrap(bld[k]), h))

NewEdge(k, from, label, to) ==
    /\ IsSome(bld[k])
    /\ LET b == Unwrap(bld[k])
       IN  /\ b.edges.freed /= <<>> \/ Len(b.edges.items) < MaxEdgeSlots
           /\ EditBuilder(k, new_edge(b, from, label, to))

RemoveEdge(k, h) ==
    /\ IsSome(bld[k])
    /\ GenInBound(h.generation)
    /\ EditBuilder(k, remove_edge(Unwrap(bld[k]), h))

SetLabel(k, h, label) ==
    /\ IsSome(bld[k])
    /\ EditBuilder(k, set_label(Unwrap(bld[k]), h, label))

NewAttribute(k, h, attr, value) ==
    /\ IsSome(bld[k])
    /\ LET b == Unwrap(bld[k])
           v == GenVec_get(b.vertices, h)
       IN  /\ IsSome(v) => Len(Unwrap(v).attributes) < MaxAttrs
           /\ EditBuilder(k, new_attribute(b, h, attr, value))

RemoveAttribute(k, h, i) ==
    /\ IsSome(bld[k])
    /\ LET b == Unwrap(bld[k])
           v == GenVec_get(b.vertices, h)
       IN  /\ IsSome(v) => i < Len(Unwrap(v).attributes)    \* Vec::remove panics past the end
           /\ EditBuilder(k, remove_attribute(b, h, i))

\* the history of vertex ids: those reserved by save_graphs_parallel calls of
\* write transactions that were dropped, of those that committed and of the
\* open one, and those the calls of the open one found deleted
Tracked(dropped, committed, open, deleted) ==
    [dropped |-> dropped, committed |-> committed, open |-> open, deleted |-> deleted]

\* the ids of the ranges save_graphs_parallel(w, builders) reserves (lines 76-92)
ReservedIds(w, builders) ==
    LET r == ReserveIds(builders, [w |-> w, ids |-> <<>>, new_vertex_count |-> <<>>])
    IN  UNION {r.ids[i][1]..(r.ids[i][1] + r.new_vertex_count[i] - 1) : i \in 1..Len(builders)}

\* the ids in the deleted_vertices of the GraphCommitData of the call (lines 126-128)
DeletedIds(w, builders) ==
    LET r == ReserveIds(builders, [w |-> w, ids |-> <<>>, new_vertex_count |-> <<>>])
    IN  UNION {Range(commit_data_from_builder(builders[i], r.ids[i][1], r.ids[i][2]).deleted_vertices) :
                   i \in 1..Len(builders)}

TrackSave(reserved, deleted) ==
    IF track = None THEN None
    ELSE Some([Unwrap(track) EXCEPT !.open = @ \cup reserved, !.deleted = @ \cup deleted])

TrackCommit ==
    IF track = None THEN None
    ELSE LET t == Unwrap(track)
         IN  Some(Tracked(t.dropped, t.committed \cup t.open, {}, {}))

\* the writer is dropped, by the client or by a panic in a call that had reserved `reserved`
TrackDrop(reserved) ==
    IF track = None THEN None
    ELSE LET t == Unwrap(track)
         IN  Some(Tracked(t.dropped \cup t.open \cup reserved, t.committed, {}, {}))

\* LatticeDb::begin_write
BeginWrite ==
    /\ wr = None
    /\ ncommit < MaxCommits
    /\ wr' = Some(LatticeWriter_new(db))
    /\ begun' = Some(db)
    /\ UNCHANGED <<db, rd, bld, nedit, ncommit, gvVars, histVars, qVars, hashVars, parVars>>

RegisterProperty(alias) ==
    /\ IsSome(wr)
    /\ Unwrap(wr).property_id_cursor < MaxProps
    /\ nedit < EditBudget
    /\ LET r == register_property(Unwrap(wr), alias, 0)
       IN  /\ wr' = Some(r.w)
           /\ prop_returned' = prop_returned \cup Range(r.id)
    /\ nedit' = nedit + 1
    /\ UNCHANGED <<db, rd, bld, ncommit, begun, gvVars, last, retired, track, qVars, hashVars, parVars>>

SaveQuery(query, alias) ==
    /\ IsSome(wr)
    /\ Unwrap(wr).query_id_cursor < MaxQueries
    /\ nedit < EditBudget
    /\ wr' = Some(save_query(Unwrap(wr), query, alias, 0).w)
    /\ nedit' = nedit + 1
    /\ UNCHANGED <<db, rd, bld, ncommit, begun, gvVars, histVars, qVars, hashVars, parVars>>

\* the vectors of builders a client can pass to save_graphs_parallel
BuilderVectors ==
    {<<k>> : k \in 1..MaxBuilders} \cup
    {<<j, k>> : j, k \in 1..MaxBuilders}

\* save_graphs_parallel(vec![bld[ks[1]], ..]); the builders are moved into the call
SaveGraphs(ks) ==
    /\ IsSome(wr)
    /\ \A i, j \in 1..Len(ks) : i /= j => ks[i] /= ks[j]
    /\ \A i \in 1..Len(ks) : IsSome(bld[ks[i]])
    /\ LET w == Unwrap(wr)
           builders == [i \in 1..Len(ks) |-> Unwrap(bld[ks[i]])]
           r == save_graphs_parallel(w, builders)
       IN  /\ r.w.vertex_id_cursor <= MaxVertexIds
           /\ r.w.graph_id_cursor <= MaxGraphs
           \* a panic unwinds through the owner of the writer, which drops it
           /\ wr' = IF r.res = "Ok" THEN Some(r.w) ELSE None
           /\ db' = IF r.res = "Ok" THEN db ELSE abort(db, r.w)
           /\ begun' = IF r.res = "Ok" THEN begun ELSE None
           /\ track' = IF r.res = "Ok"
                       THEN TrackSave(ReservedIds(w, builders), DeletedIds(w, builders))
                       ELSE TrackDrop(ReservedIds(w, builders))
    /\ bld' = [k \in 1..MaxBuilders |-> IF k \in Range(ks) THEN None ELSE bld[k]]
    /\ UNCHANGED <<rd, nedit, ncommit, gvVars, last, retired, prop_returned, qVars, hashVars, parVars>>

\* the vertex ids listed in the persisted blobs of `tables`
PersistedIds(tables) ==
    UNION {{tables.graphs[g].vertices[i].id : i \in 1..Len(tables.graphs[g].vertices)} :
               g \in DOMAIN tables.graphs}

\* LatticeWriter::commit
Commit ==
    /\ IsSome(wr)
    /\ db' = commit(Unwrap(wr))
    /\ wr' = None
    /\ ncommit' = ncommit + 1
    /\ nedit' = 0
    /\ begun' = None
    /\ retired' = retired \cup (PersistedIds(db) \ PersistedIds(db'))
    /\ track' = TrackCommit
    /\ UNCHANGED <<rd, bld, gvVars, last, prop_returned, qVars, hashVars, parVars>>

\* the writer goes out of scope without commit: the write transaction aborts
DropWriter ==
    /\ IsSome(wr)
    /\ db' = abort(db, Unwrap(wr))
    /\ wr' = None
    /\ begun' = None
    /\ track' = TrackDrop({})
    /\ UNCHANGED <<rd, bld, nedit, ncommit, gvVars, last, retired, prop_returned, qVars, hashVars, parVars>>

\* LatticeDb::begin_read
BeginRead ==
    /\ rd = None
    /\ rd' = Some(LatticeReader_new(db))
    /\ UNCHANGED <<db, wr, bld, nedit, ncommit, begun, gvVars, histVars, qVars, hashVars, parVars>>

DropReader ==
    /\ IsSome(rd)
    /\ rd' = None
    /\ UNCHANGED <<db, wr, bld, nedit, ncommit, begun, gvVars, histVars, qVars, hashVars, parVars>>

\* LatticeReader::load_graph into the client's builder slot k
LoadGraph(graph_id, k) ==
    /\ IsSome(rd)
    /\ LET r == load_graph([rt |-> ReadTxnView(Unwrap(rd), db)], graph_id)
       IN  PutBuilder(k, [b |-> IF r.res = "Ok" THEN Unwrap(r.b) ELSE GraphBuilder_new,
                           res |-> r.res])

\* db.begin_read()?.load_graph(graph_id): a reader opened for the load alone
LoadCommitted(graph_id, k) ==
    /\ rd = None
    /\ LET r == load_graph(LatticeReader_new(db), graph_id)
       IN  PutBuilder(k, [b |-> IF r.res = "Ok" THEN Unwrap(r.b) ELSE GraphBuilder_new,
                           res |-> r.res])

VertexEdit(k) ==
    \/ NewBuilder(k)
    \/ NewVertex(k)
    \/ \E h \in HandleInputs(MaxVertexSlots) : RemoveVertex(k, h)

EdgeEdit(k) ==
    \/ \E from, to \in HandleInputs(MaxVertexSlots), label \in Labels :
           NewEdge(k, from, label, to)
    \/ \E h \in HandleInputs(MaxEdgeSlots) : RemoveEdge(k, h)
    \/ \E h \in HandleInputs(MaxEdgeSlots), label \in Labels : SetLabel(k, h, label)

AttrEdit(k) ==
    \/ \E h \in HandleInputs(MaxVertexSlots), attr \in AttrProps, value \in AttrValues :
           NewAttribute(k, h, attr, value)
    \/ \E h \in HandleInputs(MaxVertexSlots), i \in 0..(MaxAttrs - 1) :
           RemoveAttribute(k, h, i)

GraphWriterNext ==
    \/ BeginWrite
    \/ \E ks \in BuilderVectors : SaveGraphs(ks)
    \/ Commit
    \/ DropWriter

GraphIds == 0..(MaxGraphs - 1)

\* the slot whose builder the client edits when the other slot holds a second
\* copy of a loaded graph
Editors == {1}

\* the edits of a client that grows its graphs and removes whole vertices
GrowEdit(k) ==
    \/ \E h \in HandleInputs(MaxVertexSlots), value \in AttrValues :
           NewAttribute(k, h, 0, value)
    \/ \E from, to \in HandleInputs(MaxVertexSlots) : NewEdge(k, from, 0, to)

\* Spec: write transactions over all the tables
Next ==
    \/ \E k \in Editors : VertexEdit(k) \/ GrowEdit(k)
    \/ GraphWriterNext
    \/ \E alias \in Aliases : RegisterProperty(alias)
    \/ \E query \in QueryInputs, alias \in Aliases : SaveQuery(query, alias)
    \/ \E graph_id \in GraphIds, k \in Editors : LoadCommitted(graph_id, k)

Spec == Init /\ [][Next]_vars

\* SpecReaders: read transactions held while write transactions commit
NextReaders ==
    \/ \E k \in Editors : VertexEdit(k) \/ GrowEdit(k)
    \/ GraphWriterNext
    \/ BeginRead
    \/ DropReader
    \/ \E graph_id \in GraphIds, k \in Editors : LoadGraph(graph_id, k)

SpecReaders == Init /\ [][NextReaders]_vars

\* SpecEdges: staged edges, saved, committed and loaded again
NextEdges ==
    \/ \E k \in Editors : VertexEdit(k) \/ EdgeEdit(k)
    \/ GraphWriterNext
    \/ \E graph_id \in GraphIds, k \in 1..MaxBuilders : LoadCommitted(graph_id, k)

SpecEdges == Init /\ [][NextEdges]_vars

\* SpecAttrs: staged attributes, saved, committed and loaded again
NextAttrs ==
    \/ \E k \in 1..MaxBuilders : VertexEdit(k) \/ AttrEdit(k)
    \/ GraphWriterNext
    \/ \E graph_id \in GraphIds, k \in 1..MaxBuilders : LoadCommitted(graph_id, k)

SpecAttrs == Init /\ [][NextAttrs]_vars

\* SpecDiff: one builder at a time, edited with every method of the growth
\* and removal kind, saved, committed, loaded and saved again
NextDiff ==
    \/ \E k \in Editors : VertexEdit(k) \/ EdgeEdit(k) \/ AttrEdit(k)
    \/ GraphWriterNext
    \/ \E graph_id \in GraphIds, k \in Editors : LoadCommitted(graph_id, k)

SpecDiff == Init /\ [][NextDiff]_vars

\* SpecIds: the run starts on a store in which an earlier run has committed
\* graph 0 with one vertex (global id 0); ncommit counts the commits of this
\* run, which removes vertices and creates new ones
\* and whose history of reserved vertex ids is kept in track
SeededBuilder == new_vertex(GraphBuilder_new).b
SeededTables ==
    commit(save_graphs_parallel(LatticeWriter_new(init_tables), <<SeededBuilder>>).w)

InitIds ==
    /\ db = SeededTables
    /\ wr = None
    /\ rd = None
    /\ bld = [k \in 1..MaxBuilders |-> None]
    /\ nedit = 0
    /\ begun = None
    /\ ncommit = 0
    /\ last = None
    /\ retired = {}
    /\ prop_returned = {}
    /\ track = Some(Tracked({}, 0..(SeqOrZero(SeededTables, SEQ_VERTEX_ID) - 1), {}, {}))
    /\ GvIdle
    /\ QIdle
    /\ HashIdle
    /\ ParIdle

NextIds ==
    \/ \E k \in 1..MaxBuilders : VertexEdit(k)
    \/ GraphWriterNext
    \/ \E graph_id \in GraphIds, k \in 1..MaxBuilders : LoadCommitted(graph_id, k)

SpecIds == InitIds /\ [][NextIds]_vars

\* SpecRefill: the run starts on a store in which an earlier run has committed
\* graph 0: vertex 0 with the attribute (0, 1), vertex 1 without attributes,
\* an edge 0 -> 1 with label 0 and an edge 1 -> 0 with label 1.  The client
\* loads the graph, removes vertices, creates vertices in the freed slots,
\* gives them attributes and saves.
RefillBuilder ==
    LET r0 == new_vertex(GraphBuilder_new)
        r1 == new_vertex(r0.b)
        b2 == new_attribute(r1.b, r0.handle, 0, UInt(U64(0, 1))).b
        b3 == new_edge(b2, r0.handle, 0, r1.handle).b
    IN  new_edge(b3, r1.handle, 1, r0.handle).b
RefillTables ==
    commit(save_graphs_parallel(LatticeWriter_new(init_tables), <<RefillBuilder>>).w)

InitRefill ==
    /\ db = RefillTables
    /\ wr = None
    /\ rd = None
    /\ bld = [k \in 1..MaxBuilders |-> None]
    /\ nedit = 0
    /\ begun = None
    /\ ncommit = 0
    /\ last = None
    /\ retired = {}
    /\ prop_returned = {}
    /\ track = Some(Tracked({}, 0..(SeqOrZero(RefillTables, SEQ_VERTEX_ID) - 1), {}, {}))
    /\ GvIdle /\ QIdle /\ HashIdle /\ ParIdle

NextRefill ==
    \/ \E k \in Editors : VertexEdit(k) \/ AttrEdit(k)
    \/ GraphWriterNext
    \/ \E graph_id \in GraphIds, k \in Editors : LoadCommitted(graph_id, k)

SpecRefill == InitRefill /\ [][NextRefill]_vars

(***************************************************************************)
(* SpecParallel: save_graphs_parallel step by step.  The call reserves the *)
(* ids and maps the new vertices on the calling thread (ParBegin), hands   *)
(* builder i and its pair of ids to diff worker i of the thread pool       *)
(* (ParDiff; the workers finish in any order), and once the parallel map   *)
(* has returned it folds the collected results into the writer on the      *)
(* calling thread (ParJoin).  The run starts on the store of SpecRefill.   *)
(***************************************************************************)
\* the call in flight: the writer w it was made on, the builders, the ids
\* reserved for them, the writer w1 after lines 74-103, the Option of the
\* GraphCommitData per worker and the order in which the workers finished
ParCall(w, builders, r, w1) ==
    [w |-> w, builders |-> builders, ids |-> r.ids, w1 |-> w1,
     results |-> [i \in 1..Len(builders) |-> None], order |-> <<>>, joined |-> FALSE]

ParIdleOrJoined == IF par = None THEN TRUE ELSE Unwrap(par).joined
ParRunning == IsSome(par) /\ ~Unwrap(par).joined

\* a collect that lists the results in the order the workers finished
CollectAsCompleted(results, order) ==
    [i \in 1..Len(order) |-> Unwrap(results[order[i]])]

\* collect() of the indexed parallel iterator: place i holds the result of
\* worker i, whenever it finished (lines 110-116)
Collect(results, order) ==
    [i \in 1..Len(results) |-> Unwrap(results[i])]

\* save_graphs_parallel, lines 74-103: reserve the ids, map the new vertices
ParBegin(ks) ==
    /\ IsSome(wr)
    /\ ParIdleOrJoined
    /\ \A i, j \in 1..Len(ks) : i /= j => ks[i] /= ks[j]
    /\ \A i \in 1..Len(ks) : IsSome(bld[ks[i]])
    /\ LET w == Unwrap(wr)
           builders == [i \in 1..Len(ks) |-> Unwrap(bld[ks[i]])]
           r == ReserveIds(builders, [w |-> w, ids |-> <<>>, new_vertex_count |-> <<>>])
           w1 == [r.w EXCEPT !.wt.vgmap = InsertNewMappings(@, r.ids, r.new_vertex_count, 1)]
       IN  /\ r.w.vertex_id_cursor <= MaxVertexIds
           /\ r.w.graph_id_cursor <= MaxGraphs
           /\ par' = Some(ParCall(w, builders, r, w1))
    /\ bld' = [k \in 1..MaxBuilders |-> IF k \in Range(ks) THEN None ELSE bld[k]]
    /\ UNCHANGED <<db, wr, rd, nedit, ncommit, begun, gvVars, histVars, qVars, hashVars>>

\* diff worker i runs commit_data_from_builder on its builder and its ids
\* (lines 110-115); it reads and writes nothing else
ParDiff(i) ==
    /\ ParRunning
    /\ i \in 1..Len(Unwrap(par).builders)
    /\ Unwrap(par).results[i] = None
    /\ LET p == Unwrap(par)
           data == commit_data_from_builder(p.builders[i], p.ids[i][1], p.ids[i][2])
       IN  par' = Some([p EXCEPT !.results[i] = Some(data), !.order = Append(@, i)])
    /\ UNCHANGED <<gvVars, dbVars, histVars, qVars, hashVars>>

\* the parallel map returns: every worker has finished, or one has panicked
\* and the pool hands the panic to the calling thread; then lines 119-188
ParJoin ==
    /\ ParRunning
    /\ LET p == Unwrap(par)
           done == {i \in 1..Len(p.builders) : IsSome(p.results[i])}
           panicked == \E i \in done : Unwrap(p.results[i]).panic
       IN  /\ IF panicked THEN TRUE ELSE done = 1..Len(p.builders)
           /\ wr' = IF panicked THEN None
                     ELSE Some(FoldAll(p.w1, Collect(p.results, p.order)))
           /\ db' = IF panicked THEN abort(db, p.w1) ELSE db
           /\ begun' = IF panicked THEN None ELSE begun
           /\ track' = IF panicked THEN TrackDrop(ReservedIds(p.w, p.builders))
                        ELSE TrackSave(ReservedIds(p.w, p.builders), DeletedIds(p.w, p.builders))
           /\ par' = Some([p EXCEPT !.joined = TRUE])
    /\ UNCHANGED <<rd, bld, nedit, ncommit, gvVars, last, retired, prop_returned, qVars, hashVars>>

\* the calling thread is inside save_graphs_parallel until the map returns
NextParallel ==
    \/ \E k \in Editors : VertexEdit(k)
    \/ \E graph_id \in GraphIds, k \in 1..MaxBuilders : LoadCommitted(graph_id, k)
    \/ BeginWrite
    \/ \E ks \in BuilderVectors : ParBegin(ks)
    \/ \E i \in 1..MaxBuilders : ParDiff(i)
    \/ ParJoin
    \/ ParIdleOrJoined /\ Commit
    \/ ParIdleOrJoined /\ DropWriter

SpecParallel == InitRefill /\ [][NextParallel]_vars

(***************************************************************************)
(* SpecQuery: a client that builds a query through the QueryBuilder        *)
(* methods, compiles it, and rebuilds a builder from the PreparedQuery it  *)
(* got (node i of the builder is node i of the PreparedQuery).  A builder  *)
(* call that returns an error leaves the builder as it was.                *)
(***************************************************************************)
QueryValues == AttrValues \cup {Text("a")}
NodeHandles == {Handle(U32Zero, i) : i \in 0..(MaxQueryNodes - 1)}
\* the vectors of children a client passes to group_and / group_or
ChildVectors == {<<>>} \cup {<<h>> : h \in NodeHandles} \cup {<<g, h>> : g, h \in NodeHandles}

\* the client takes the outcome r of a constructor that returned Ok
QueryEdit(r) ==
    /\ Len(qbuilder.nodes.items) < MaxQueryNodes
    /\ r.res = "Ok"
    /\ qbuilder' = r.qb
    /\ pq' = None
    /\ decompiled' = None
    /\ UNCHANGED <<found, gvVars, dbVars, histVars, hashVars, parVars>>

QMatchAttr(attr, value) == QueryEdit(match_attr(qbuilder, attr, value))
QMatchOutgoing(label, subject) == QueryEdit(match_outgoing(qbuilder, label, subject))
QMatchIncoming(label, target) == QueryEdit(match_incoming(qbuilder, label, target))
QGroupAnd(children) == QueryEdit(group_and(qbuilder, children))
QGroupOr(children) == QueryEdit(group_or(qbuilder, children))
QDifference(include, exclude) == QueryEdit(difference(qbuilder, include, exclude))

QSetRoot(handle) ==
    /\ qbuilder' = set_root(qbuilder, handle)
    /\ pq' = None
    /\ decompiled' = None
    /\ UNCHANGED <<found, gvVars, dbVars, histVars, hashVars, parVars>>

\* QueryBuilder::compile on the client's builder
QCompile ==
    /\ pq = None
    /\ pq' = Some(compile(qbuilder))
    /\ UNCHANGED <<qbuilder, decompiled, found, gvVars, dbVars, histVars, hashVars, parVars>>

\* a value the client can pass to match_attr whose hash is `hash`
ValueOf(hash) == CHOOSE v \in QueryValues : Primitive_hash(v) = hash

\* the constructor call that adds a node like the compiled node to qb
MirrorNode(qb, node) ==
    LET hs == [i \in 1..Len(node.children) |-> Handle(U32Zero, node.children[i])]
    IN  CASE node.kind = "Attribute" -> match_attr(qb, node.attr, ValueOf(node.value))
          [] node.kind = "Edge" /\ node.dir = "Outgoing" -> match_outgoing(qb, node.label, hs[1])
          [] node.kind = "Edge" /\ node.dir = "Incoming" -> match_incoming(qb, node.label, hs[1])
          [] node.kind = "Intersect" -> group_and(qb, hs)
          [] node.kind = "Union" -> group_or(qb, hs)
          [] node.kind = "Difference" -> difference(qb, hs[1], hs[2])

\* the builder that mirrors the PreparedQuery: its nodes in their order, then its root
RECURSIVE MirrorNodes(_, _)
MirrorNodes(qb, nodes) ==
    IF nodes = <<>> THEN qb
    ELSE MirrorNodes(MirrorNode(qb, Head(nodes)).qb, Tail(nodes))

Mirror(query) ==
    set_root(MirrorNodes(QueryBuilder_new, query.nodes), Handle(U32Zero, query.root))

\* the client replaces its builder by the mirror of the PreparedQuery it got
QDecompile ==
    /\ IsSome(pq)
    /\ Unwrap(pq).res = "Ok"
    /\ qbuilder' = Mirror(Unwrap(pq).query)
    /\ decompiled' = Some(Unwrap(pq).query)
    /\ pq' = None
    /\ UNCHANGED <<found, gvVars, dbVars, histVars, hashVars, parVars>>

NextQuery ==
    \/ \E value \in QueryValues : QMatchAttr(0, value)
    \/ \E subject \in NodeHandles : QMatchOutgoing(0, subject)
    \/ \E target \in NodeHandles : QMatchIncoming(0, target)
    \/ \E children \in ChildVectors : QGroupAnd(children)
    \/ \E children \in ChildVectors : QGroupOr(children)
    \/ \E include, exclude \in NodeHandles : QDifference(include, exclude)
    \/ \E handle \in NodeHandles : QSetRoot(handle)
    \/ QCompile
    \/ QDecompile

SpecQuery == Init /\ [][NextQuery]_vars

(***************************************************************************)
(* SpecSearch: the client builds a query of attribute leaves and groups,   *)
(* sets its root, compiles it and runs search over a reader whose SCALAR   *)
(* table indexes one of a few populations of vertices.  `found` keeps the  *)
(* bitmap search computed for every node of the plan.                      *)
(***************************************************************************)
SearchVertexIds == 0..(MaxSearchVertices - 1)
SearchHandles == {Handle(U32Zero, i) : i \in 0..(MaxSearchNodes - 2)}

\* the vectors of children the client passes to group_and / group_or: up to
\* three handles in ascending order, one pair in descending order and one
\* pair that names a child twice
SearchChildVectors ==
    {<<>>} \cup {<<h>> : h \in SearchHandles}
    \cup {<<g, h>> : g, h \in {x \in SearchHandles : x.index < 2}}
    \cup {<<g, h>> \in SearchHandles \X SearchHandles : g.index < h.index}
    \cup {<<Handle(U32Zero, 0), Handle(U32Zero, 1), Handle(U32Zero, 2)>>}

\* for each vertex id the values of its attributes under property 0
SearchPopulations ==
    LET one == UInt(U64(0, 1))
        two == UInt(U64(0, 2))
        a == Text("a")
        Pop(v0, v1, v2) == [id \in SearchVertexIds |->
                               CASE id = 0 -> v0 [] id = 1 -> v1 [] OTHER -> v2]
    IN  {Pop({}, {}, {}),
         Pop({one}, {two}, {a}),
         Pop({one, a}, {two, a}, {two, a}),
         Pop({one, two, a}, {one, two}, {a}),
         Pop({one, two, a}, {one, two, a}, {one}),
         Pop({one}, {one}, {two})}

\* the tables of a store whose SCALAR index holds the population: the
\* bitmap of (0, hash(value)) lists the vertices that carry the value
IndexOf(pop) ==
    LET carriers(value) == {id \in SearchVertexIds : value \in pop[id]}
        present == {value \in QueryValues : carriers(value) /= {}}
    IN  [init_tables EXCEPT !.scalar =
            [key \in {AttrKey(<<0, value>>) : value \in present} |->
                carriers(CHOOSE value \in present : AttrKey(<<0, value>>) = key)]]

SearchTables == {IndexOf(pop) : pop \in SearchPopulations}

\* the client takes the outcome r of a constructor that returned Ok; it
\* adds nodes until it sets the root
SearchEdit(r) ==
    /\ qbuilder.root = None
    /\ Len(qbuilder.nodes.items) < MaxSearchNodes
    /\ r.res = "Ok"
    /\ qbuilder' = r.qb
    /\ UNCHANGED <<pq, decompiled, found, gvVars, dbVars, histVars, hashVars, parVars>>

SMatchAttr(attr, value) == SearchEdit(match_attr(qbuilder, attr, value))
SGroupAnd(children) == SearchEdit(group_and(qbuilder, children))
SGroupOr(children) == SearchEdit(group_or(qbuilder, children))

\* set_root with the handle of a node of the builder
SSetRoot(handle) ==
    /\ qbuilder.root = None
    /\ IsSome(GenVec_get(qbuilder.nodes, handle))
    /\ qbuilder' = set_root(qbuilder, handle)
    /\ UNCHANGED <<pq, decompiled, found, gvVars, dbVars, histVars, hashVars, parVars>>

\* QueryBuilder::compile on the rooted builder
SCompile ==
    /\ IsSome(qbuilder.root)
    /\ pq = None
    /\ pq' = Some(compile(qbuilder))
    /\ UNCHANGED <<qbuilder, decompiled, found, gvVars, dbVars, histVars, hashVars, parVars>>

\* begin_read on a store that holds `tables`, then search(&query)
SSearch(tables) ==
    /\ IsSome(pq)
    /\ Unwrap(pq).res = "Ok"
    /\ found = None
    /\ LET r == LatticeReader_new(tables)
           query == Unwrap(pq).query
       IN  found' = Some([rt |-> r.rt,
                          results |-> SearchLoop(r.rt, query.nodes, 0, EmptyMap),
                          out |-> search(r, query)])
    /\ UNCHANGED <<qbuilder, pq, decompiled, gvVars, dbVars, histVars, hashVars, parVars>>

NextSearch ==
    \/ \E value \in QueryValues : SMatchAttr(0, value)
    \/ \E children \in SearchChildVectors : SGroupAnd(children)
    \/ \E children \in SearchChildVectors : SGroupOr(children)
    \/ \E handle \in SearchHandles \cup {Handle(U32Zero, MaxSearchNodes - 1)} : SSetRoot(handle)
    \/ SCompile
    \/ \E tables \in SearchTables : SSearch(tables)

SpecSearch == Init /\ [][NextSearch]_vars

(***************************************************************************)
(* SpecMeaning: the client builds a query of up to MaxQueryNodes nodes     *)
(* with every constructor, sets its root, compiles it and runs search      *)
(* over a store that an earlier run has filled.                            *)
(***************************************************************************)
\* a graph of three vertices: vertex 0 carries the value 1, vertex 1 the
\* values 1 and 2, vertex 2 the value 2; edges 0 -> 1, 1 -> 2 and 0 -> 2
\* with label 0
ChainBuilder ==
    LET r0 == new_vertex(GraphBuilder_new)
        r1 == new_vertex(r0.b)
        r2 == new_vertex(r1.b)
        b3 == new_attribute(r2.b, r0.handle, 0, UInt(U64(0, 1))).b
        b4 == new_attribute(b3, r1.handle, 0, UInt(U64(0, 1))).b
        b5 == new_attribute(b4, r1.handle, 0, UInt(U64(0, 2))).b
        b6 == new_attribute(b5, r2.handle, 0, UInt(U64(0, 2))).b
        b7 == new_edge(b6, r0.handle, 0, r1.handle).b
        b8 == new_edge(b7, r1.handle, 0, r2.handle).b
    IN  new_edge(b8, r0.handle, 0, r2.handle).b
ChainTables ==
    commit(save_graphs_parallel(LatticeWriter_new(init_tables), <<ChainBuilder>>).w)

MeaningTables == {init_tables, RefillTables, ChainTables}

MeaningEdit(r) == Len(qbuilder.nodes.items) < MaxQueryNodes /\ SearchEdit(r)

NextMeaning ==
    \/ \E value \in QueryValues : MeaningEdit(match_attr(qbuilder, 0, value))
    \/ \E subject \in NodeHandles : MeaningEdit(match_outgoing(qbuilder, 0, subject))
    \/ \E target \in NodeHandles : MeaningEdit(match_incoming(qbuilder, 0, target))
    \/ \E children \in ChildVectors : MeaningEdit(group_and(qbuilder, children))
    \/ \E children \in ChildVectors : MeaningEdit(group_or(qbuilder, children))
    \/ \E include, exclude \in NodeHandles : MeaningEdit(difference(qbuilder, include, exclude))
    \/ \E handle \in NodeHandles : SSetRoot(handle)
    \/ SCompile
    \/ \E tables \in MeaningTables : SSearch(tables)

SpecMeaning == Init /\ [][NextMeaning]_vars

(***************************************************************************)
(* SpecHash: verify and hash applied to a pair of values.  The integers    *)
(* run over the low 56 bits 0..MaxHashInt, among them the numbers the      *)
(* texts hash to, and two integers of 2^56 and more.                       *)
(***************************************************************************)
HashValues ==
    {UInt(U64(0, n)) : n \in 0..MaxHashInt}
    \cup {UInt(U64(1, 0)), UInt(U64(2, 11))}
    \cup {Text(t) : t \in {"a", "b", "c"}}

InitHash ==
    /\ DbInit /\ GvIdle /\ QIdle /\ ParIdle
    /\ hash_in \in HashValues \X HashValues
    /\ hash_out = None

\* value.verify() and value.hash() on both values of the pair
HashPair ==
    /\ hash_out = None
    /\ hash_out' = Some([ok |-> <<Primitive_verify(hash_in[1]), Primitive_verify(hash_in[2])>>,
                         hash |-> <<Primitive_hash(hash_in[1]), Primitive_hash(hash_in[2])>>])
    /\ UNCHANGED <<hash_in, gvVars, dbVars, histVars, qVars, parVars>>

NextHash == HashPair

SpecHash == InitHash /\ [][NextHash]_vars

(***************************************************************************)
(* SpecBuilder: one builder and a client that looks at what every call     *)
(* returns.  `last` records the call, its result and the builder before    *)
(* it; a call that fails is a step too.                                    *)
(***************************************************************************)
\* values the client passes to new_attribute: below 2^56, 2^56 itself, a text
BuilderValues == {UInt(U64(0, 1)), UInt(U64(1, 0)), Text("a")}

Call(op, args, r) ==
    /\ IsSome(bld[1])
    /\ nedit < MaxCalls
    /\ bld' = [bld EXCEPT ![1] = Some(r.b)]
    /\ nedit' = nedit + 1
    /\ last' = Some([op |-> op, args |-> args, res |-> r.res, before |-> Unwrap(bld[1])])
    /\ UNCHANGED <<db, wr, rd, ncommit, begun, gvVars, retired, prop_returned, track, qVars, hashVars, parVars>>

CallNewVertex ==
    /\ IsSome(bld[1])
    /\ LET b == Unwrap(bld[1])
       IN  /\ b.vertices.freed /= <<>> \/ Len(b.vertices.items) < MaxVertexSlots
           /\ Call("new_vertex", <<>>, [b |-> new_vertex(b).b, res |-> "Ok"])

CallRemoveVertex(h) ==
    /\ IsSome(bld[1])
    /\ GenInBound(h.generation)
    /\ Call("remove_vertex", <<h>>, remove_vertex(Unwrap(bld[1]), h))

CallNewEdge(from, label, to) ==
    /\ IsSome(bld[1])
    /\ LET b == Unwrap(bld[1])
       IN  /\ b.edges.freed /= <<>> \/ Len(b.edges.items) < MaxEdgeSlots
           /\ Call("new_edge", <<from, label, to>>, new_edge(b, from, label, to))

CallRemoveEdge(e) ==
    /\ IsSome(bld[1])
    /\ GenInBound(e.generation)
    /\ Call("remove_edge", <<e>>, remove_edge(Unwrap(bld[1]), e))

CallSetSource(e, h) ==
    /\ IsSome(bld[1])
    /\ Call("set_source", <<e, h>>, set_source(Unwrap(bld[1]), e, h))

CallSetDestination(e, h) ==
    /\ IsSome(bld[1])
    /\ Call("set_destination", <<e, h>>, set_destination(Unwrap(bld[1]), e, h))

CallNewAttribute(h, attr, value) ==
    /\ IsSome(bld[1])
    /\ LET b == Unwrap(bld[1])
           v == GenVec_get(b.vertices, h)
       IN  /\ IsSome(v) => Len(Unwrap(v).attributes) < MaxAttrs
           /\ Call("new_attribute", <<h, attr, value>>, new_attribute(b, h, attr, value))

NextBuilder ==
    \/ NewBuilder(1)
    \/ CallNewVertex
    \/ \E h \in HandleInputs(MaxVertexSlots) : CallRemoveVertex(h)
    \/ \E from, to \in HandleInputs(MaxVertexSlots) : CallNewEdge(from, 0, to)
    \/ \E e \in HandleInputs(MaxEdgeSlots) : CallRemoveEdge(e)
    \/ \E e \in HandleInputs(MaxEdgeSlots), h \in HandleInputs(MaxVertexSlots) :
           CallSetSource(e, h)
    \/ \E e \in HandleInputs(MaxEdgeSlots), h \in HandleInputs(MaxVertexSlots) :
           CallSetDestination(e, h)
    \/ \E h \in HandleInputs(MaxVertexSlots), value \in BuilderValues :
           CallNewAttribute(h, 0, value)

SpecBuilder == Init /\ [][NextBuilder]_vars

\* SpecAccess: the client also writes attributes through the reference that
\* get_mut_attributes returns
CallPushAttribute(h, attr, value) ==
    /\ IsSome(bld[1])
    /\ LET b == Unwrap(bld[1])
           v == GenVec_get(b.vertices, h)
       IN  /\ IsSome(v) => Len(Unwrap(v).attributes) < MaxAttrs
           /\ Call("get_mut_attributes", <<h, attr, value>>, push_attribute(b, h, attr, value))

NextAccess ==
    \/ NewBuilder(1)
    \/ CallNewVertex
    \/ \E h \in HandleInputs(MaxVertexSlots) : CallRemoveVertex(h)
    \/ \E h \in HandleInputs(MaxVertexSlots), value \in BuilderValues :
           CallNewAttribute(h, 0, value)
    \/ \E h \in HandleInputs(MaxVertexSlots), value \in BuilderValues :
           CallPushAttribute(h, 0, value)

SpecAccess == Init /\ [][NextAccess]_vars

(***************************************************************************)
(* SpecGenVec: the arena alone, driven by add and remove.                  *)
(*                                                                         *)
(* The arena starts empty, or aged: slot 0 has been through 2^32 - 1       *)
(* add/remove cycles and is occupied again, so its generation counter      *)
(* stands at u32::MAX.  Of the handles removed on the way, the first one,  *)
(* (generation 0, index 0), is tracked.                                    *)
(***************************************************************************)
GvItems == {7}

GvAged == [items |-> <<Slot(Some(7), U32Max)>>, freed |-> <<>>]

GvStart ==
    /\ gv_panicked = FALSE
    /\ \/ /\ gv = GenVec_new
          /\ gv_issued = {}
          /\ gv_removed = {}
          /\ gv_removals = <<>>
       \/ /\ gv = GvAged
          /\ gv_issued = {Handle(U32Zero, 0), Handle(U32Max, 0)}
          /\ gv_removed = {Handle(U32Zero, 0)}
          /\ gv_removals = <<U32Max>>

\* one more removal on a slot
CountInc(c) == IF c[2] < U16Max THEN <<c[1], c[2] + 1>> ELSE <<c[1] + 1, 0>>

\* the counts after remove(h) returned `result`
CountRemoval(h, result) ==
    IF IsSome(result) THEN [gv_removals EXCEPT ![h.index + 1] = CountInc(@)] ELSE gv_removals

\* a generation the exploration still removes at
GvGenInBound(g) == g = U32Max \/ (g[1] = 0 /\ g[2] < GvMaxGen)

GvAdd(item) ==
    /\ ~gv_panicked
    /\ gv.freed /= <<>> \/ Len(gv.items) < GvMaxSlots
    /\ LET r == GenVec_add(gv, item)
       IN  /\ gv' = r.vec
           /\ gv_issued' = gv_issued \cup {r.handle}
           /\ gv_removals' = IF Len(r.vec.items) > Len(gv.items)
                              THEN Append(gv_removals, U32Zero) ELSE gv_removals
    /\ UNCHANGED <<gv_removed, gv_panicked, dbVars, histVars, qVars, hashVars, parVars>>

\* remove(h) where `slot.generation += 1` does not overflow, or h does not resolve
GvRemove(h) ==
    /\ ~gv_panicked
    /\ ~GenVec_remove_overflows(gv, h)
    /\ GenVec_resolves(gv, h) => GvGenInBound(h.generation)
    /\ LET r == GenVec_remove(gv, h)
       IN  /\ gv' = r.vec
           /\ gv_removed' = IF IsSome(r.result) THEN gv_removed \cup {h} ELSE gv_removed
           /\ gv_removals' = CountRemoval(h, r.result)
    /\ UNCHANGED <<gv_issued, gv_panicked, dbVars, histVars, qVars, hashVars, parVars>>

\* remove(h) with the slot's generation at u32::MAX, built without overflow
\* checks (the release profile): the counter wraps to 0
GvRemoveWrap(h) ==
    /\ ~gv_panicked
    /\ GenVec_remove_overflows(gv, h)
    /\ LET r == GenVec_remove(gv, h)
       IN  /\ gv' = r.vec
           /\ gv_removed' = IF IsSome(r.result) THEN gv_removed \cup {h} ELSE gv_removed
           /\ gv_removals' = CountRemoval(h, r.result)
    /\ UNCHANGED <<gv_issued, gv_panicked, dbVars, histVars, qVars, hashVars, parVars>>

\* the same call built with overflow checks (the dev profile): the addition
\* panics before anything is written
GvRemovePanic(h) ==
    /\ ~gv_panicked
    /\ GenVec_remove_overflows(gv, h)
    /\ gv_panicked' = TRUE
    /\ UNCHANGED <<gv, gv_issued, gv_removed, gv_removals, dbVars, histVars, qVars, hashVars, parVars>>

GvNext ==
    \/ \E item \in GvItems : GvAdd(item)
    \/ \E h \in gv_issued : GvRemove(h)
    \/ \E h \in gv_issued : GvRemoveWrap(h)
    \/ \E h \in gv_issued : GvRemovePanic(h)

InitGenVec == GvStart /\ DbInit /\ QIdle /\ HashIdle /\ ParIdle

SpecGenVec == InitGenVec /\ [][GvNext]_vars

(***************************************************************************)
(* The committed tables as a reader sees them.                             *)
(***************************************************************************)
\* id is a member of the bitmap stored under key
InBitmap(table, key, id) == key \in DOMAIN table /\ id \in table[key]

\* the vertices and the edges listed in the persisted blobs of `tables`
BlobVertices(tables) ==
    UNION {{<<g, i>> : i \in 1..Len(tables.graphs[g].vertices)} : g \in DOMAIN tables.graphs}
BlobVertex(tables, gi) == tables.graphs[gi[1]].vertices[gi[2]]
BlobEdgeSet(tables) ==
    UNION {Range(tables.graphs[g].edges) : g \in DOMAIN tables.graphs}

(***************************************************************************)
(* Index-entity agreement after a commit.                                  *)
(***************************************************************************)
\* C1: every edge (u, l, v) listed in a persisted blob has v in FORWARD[(u,l)]
\* and u in REVERSE[(v,l)], whatever builder operations led to the commit.
PersistedEdgesIndexed ==
    \A e \in BlobEdgeSet(db) :
        /\ InBitmap(db.forward, <<e.from, e.label>>, e.to)
        /\ InBitmap(db.reverse, <<e.to, e.label>>, e.from)

\* C2: every attribute (p, value) of every vertex V listed in a persisted blob
\* has V.id in SCALAR[(p, hash(value))].
PersistedAttrsIndexed ==
    \A gi \in BlobVertices(db) :
        LET V == BlobVertex(db, gi)
        IN  \A j \in 1..Len(V.attrs) : InBitmap(db.scalar, AttrKey(V.attrs[j]), V.id)

\* C3: every id in a SCALAR[(p,h)] bitmap is the id of a vertex listed in a
\* persisted blob that carries an attribute with property p and value hash h.
ScalarIdsCarryAttr ==
    \A key \in DOMAIN db.scalar : \A id \in db.scalar[key] :
        \E gi \in BlobVertices(db) :
            LET V == BlobVertex(db, gi)
            IN  /\ V.id = id
                /\ \E j \in 1..Len(V.attrs) : AttrKey(V.attrs[j]) = key

\* C4: edge symmetry: v is in FORWARD[(u,l)] if and only if u is in
\* REVERSE[(v,l)], for all u, l and v, after any commit.
EdgeSymmetry ==
    /\ \A key \in DOMAIN db.forward : \A v \in db.forward[key] :
           InBitmap(db.reverse, <<v, key[2]>>, key[1])
    /\ \A key \in DOMAIN db.reverse : \A u \in db.reverse[key] :
           InBitmap(db.forward, <<u, key[2]>>, key[1])

\* two commits have left an edge between two different vertices in the index
\* after an edge of a loaded graph was taken out of it
EdgeSymmetryWitness ==
    /\ ncommit = 2
    /\ \E key \in DOMAIN db.forward : \E v \in db.forward[key] : v /= key[1]
    /\ \E g \in DOMAIN db.graphs : Len(db.graphs[g].edges) = 1

\* C5: every vertex id listed in GRAPHS[g].vertices has the entry (id -> g) in
\* VERTEX_GRAPH_MAP, and every entry (v -> g) of VERTEX_GRAPH_MAP names a
\* vertex listed in GRAPHS[g].vertices.
GraphMapAgrees ==
    /\ \A gi \in BlobVertices(db) :
           MapGet(db.vgmap, BlobVertex(db, gi).id) = Some(gi[1])
    /\ \A v \in DOMAIN db.vgmap :
           \E gi \in BlobVertices(db) :
               gi[1] = db.vgmap[v] /\ BlobVertex(db, gi).id = v

\* C6: no vertex id appears twice within one persisted blob, and none appears
\* in the blobs of two different graphs, whether the write transactions that
\* handed the ids out were committed or dropped.
VertexIdsUnique ==
    \A gi, gj \in BlobVertices(db) :
        BlobVertex(db, gi).id = BlobVertex(db, gj).id => gi = gj

\* two graphs are persisted, one of them with two vertices, after two commits
VertexIdsUniqueWitness ==
    /\ ncommit = 2
    /\ Cardinality(DOMAIN db.graphs) = 2
    /\ \E g \in DOMAIN db.graphs : Len(db.graphs[g].vertices) = 2

(***************************************************************************)
(* Write transactions and read transactions.                               *)
(***************************************************************************)
\* C7: while a writer is open and when it is dropped without commit, after any
\* register_property, save_query and save_graphs_parallel calls, every table a
\* reader opened afterwards sees is what it was before the writer was opened.
DroppedWriterLeavesTables ==
    [][IsSome(wr) /\ ncommit' = ncommit =>
           LatticeReader_new(db').rt = Unwrap(begun)]_vars

\* no writer is open, nothing was ever committed, the client has used up its
\* budget of staged changes and holds no builder: a writer took the builder
\* and the other staged changes and was dropped
DroppedWriterWitness ==
    /\ wr = None
    /\ ncommit = 0
    /\ nedit = MaxEdits
    /\ \A k \in 1..MaxBuilders : bld[k] = None
    /\ db = init_tables

\* what a reader sees of an index table whose write-back cache was `cache`
\* over the table `staged` of the write transaction
CacheObserved(seen, staged, cache) ==
    /\ \A key \in DOMAIN cache :
           IF cache[key] = {} THEN key \notin DOMAIN seen
           ELSE key \in DOMAIN seen /\ seen[key] = cache[key]
    /\ \A key \in (DOMAIN seen \cup DOMAIN staged) \ DOMAIN cache :
           MapGet(seen, key) = MapGet(staged, key)

\* the reader r sees everything the writer w had staged
Observes(r, w) ==
    /\ r.rt.graphs = w.wt.graphs
    /\ r.rt.vgmap = w.wt.vgmap
    /\ CacheObserved(r.rt.scalar, w.wt.scalar, w.scalar_cache)
    /\ CacheObserved(r.rt.forward, w.wt.forward, w.forward_cache)
    /\ CacheObserved(r.rt.reverse, w.wt.reverse, w.reverse_cache)
    /\ r.rt.properties = w.wt.properties
    /\ r.rt.prop_names = w.wt.prop_names
    /\ r.rt.queries = w.wt.queries
    /\ r.rt.query_names = w.wt.query_names
    /\ r.rt.query_metas = w.wt.query_metas

\* C8: a reader opened after commit() has returned sees every effect of the
\* commit: the graph blobs, the vertex-graph map entries, every bitmap change
\* of the write-back caches, the registered properties and the saved queries.
CommitVisible ==
    [][ncommit' = ncommit + 1 => Observes(LatticeReader_new(db'), Unwrap(wr))]_vars

\* two commits have left a graph, its map entries, bitmaps in the scalar and
\* the edge indexes, a property and a query
CommitVisibleWitness ==
    /\ ncommit = 2
    /\ db.graphs /= EmptyMap /\ db.vgmap /= EmptyMap
    /\ db.scalar /= EmptyMap /\ db.forward /= EmptyMap /\ db.reverse /= EmptyMap
    /\ db.properties /= EmptyMap /\ db.queries /= EmptyMap

\* the queries a client runs, compiled
SearchInputs == {compile(QueryAttr(0, v)).query : v \in AttrValues}

\* everything the three read operations return on the reader r
ReaderResults(r) ==
    [search |-> [q \in SearchInputs |-> search(r, q)],
     load_graph |-> [g \in GraphIds |-> load_graph(r, g)],
     graph_ids |-> [v \in 0..(MaxVertexIds - 1) |-> get_graph_ids_from_vertices(r, <<v>>)]]

\* the results of the open reader now
OpenReaderResults ==
    IF IsSome(rd) THEN Some(ReaderResults([rt |-> ReadTxnView(Unwrap(rd), db)])) ELSE None

\* C9: search, load_graph and get_graph_ids_from_vertices return the same
\* values on a reader for as long as it is open, whatever the writer does and
\* commits in between.
ReaderResultsFixed ==
    [][IsSome(rd) /\ IsSome(rd') => OpenReaderResults' = OpenReaderResults]_vars

\* a reader is open and a commit has since changed what a new reader would get
ReaderResultsFixedWitness ==
    /\ IsSome(rd)
    /\ ncommit > 0
    /\ OpenReaderResults /= Some(ReaderResults(LatticeReader_new(db)))

(***************************************************************************)
(* The arena.                                                              *)
(***************************************************************************)
\* C10: after remove(h) has succeeded, get(h), get_mut(h) and remove(h) return
\* absent however many add and remove calls follow, and no handle of an item
\* that lives in the arena, h's slot reused or not, is equal to h.
RemovedHandlesStayAbsent ==
    \A h \in gv_removed :
        /\ GenVec_get(gv, h) = None
        /\ GenVec_get_mut(gv, h) = None
        /\ GenVec_remove(gv, h).result = None
        /\ \A p \in Range(GenVec_iter(gv)) : p[1] /= h

(***************************************************************************)
(* The builder as its caller sees it (SpecBuilder).                        *)
(***************************************************************************)
\* the client's builder, and the record of the call that produced it
TheBuilder == Unwrap(bld[1])
LastCall == Unwrap(last)
LastWas(op) == IsSome(last) /\ LastCall.op = op

\* the edges a builder holds in occupied slots of its edge arena
LiveEdges(b) == {pair[2] : pair \in Range(GenVec_iter(b.edges))}

\* C11: after remove_vertex(h) returned Ok, no live edge of the builder has h
\* as its from or its to endpoint, whatever calls came before
RemoveVertexDetaches ==
    (LastWas("remove_vertex") /\ LastCall.res = "Ok") =>
        \A edge \in LiveEdges(TheBuilder) :
            edge.from /= LastCall.args[1] /\ edge.to /= LastCall.args[1]

\* the last call was EdgeBuilder::set_source or set_destination on a live edge
LastSetEndpoint ==
    /\ IsSome(last)
    /\ LastCall.op \in {"set_source", "set_destination"}
    /\ IsSome(GenVec_get(LastCall.before.edges, LastCall.args[1]))

\* C12: set_source(h) / set_destination(h) on an edge returns Ok and makes h
\* the endpoint when h is the handle of a live vertex, and returns
\* VertexNotFound and leaves the builder as it was exactly when h is not
SetEndpointChecksVertex ==
    LastSetEndpoint =>
        LET e == LastCall.args[1]
            h == LastCall.args[2]
            was == Unwrap(GenVec_get(LastCall.before.edges, e))
            now == GenVec_get(TheBuilder.edges, e)
        IN  IF IsSome(GenVec_get(LastCall.before.vertices, h))
            THEN /\ LastCall.res = "Ok"
                 /\ now = Some(IF LastCall.op = "set_source"
                               THEN [was EXCEPT !.from = h]
                               ELSE [was EXCEPT !.to = h])
            ELSE /\ LastCall.res = "VertexNotFound"
                 /\ TheBuilder = LastCall.before

\* the last call was VertexBuilder::new_attribute on a live vertex
LastNewAttribute ==
    /\ LastWas("new_attribute")
    /\ IsSome(GenVec_get(LastCall.before.vertices, LastCall.args[1]))

\* an unsigned integer of 2^56 or more: its top byte is not zero
TooBig(value) == value.kind = "UInt" /\ value.n[1] /= 0

\* C20: new_attribute with an unsigned integer >= 2^56 returns NumberTooBig
\* and leaves the builder as it was; with a smaller integer or a text it
\* returns Ok and appends exactly the pair (property, value) to the vertex
NewAttributeVerifies ==
    LastNewAttribute =>
        LET h == LastCall.args[1]
            pair == <<LastCall.args[2], LastCall.args[3]>>
            was == Unwrap(GenVec_get(LastCall.before.vertices, h))
        IN  IF TooBig(LastCall.args[3])
            THEN LastCall.res = "NumberTooBig" /\ TheBuilder = LastCall.before
            ELSE /\ LastCall.res = "Ok"
                 /\ TheBuilder = [LastCall.before EXCEPT !.vertices = GenVec_set(@, h,
                        [was EXCEPT !.attributes = Append(@, pair)])]

\* a too-big integer was refused on a vertex to which a text was appended
NewAttributeVerifiesWitness ==
    /\ LastNewAttribute
    /\ TooBig(LastCall.args[3])
    /\ LastCall.res = "NumberTooBig"
    /\ LET was == Unwrap(GenVec_get(TheBuilder.vertices, LastCall.args[1]))
       IN  was.attributes = <<<<0, Text("a")>>>>

(***************************************************************************)
(* The diff engine on loaded builders (SpecDiff).                          *)
(***************************************************************************)
\* the builder came from load_graph and no call has changed it since
Unmutated(b) ==
    /\ IsSome(b.old_graph_data)
    /\ b = from_prepared(Unwrap(b.old_graph_data).graph)

\* the writer that takes the client's builders: the open one, else a new one
SavingWriter == IF IsSome(wr) THEN Unwrap(wr) ELSE LatticeWriter_new(db)

\* C13: saving a builder that load_graph returned for a committed graph G and
\* that was not changed yields a GraphCommitData with empty add_attrs,
\* rem_attrs, add_edges, rem_edges and deleted_vertices and a PreparedGraph
\* with the vertices and edges of G in the order of G; the save leaves the
\* writer's caches and map as they were
DiffMinimality ==
    \A k \in 1..MaxBuilders :
        (IsSome(bld[k]) /\ Unmutated(Unwrap(bld[k]))) =>
            LET b == Unwrap(bld[k])
                G == Unwrap(b.old_graph_data).graph
                w == SavingWriter
                d == commit_data_from_builder(b, w.vertex_id_cursor, G.id)
                r == save_graphs_parallel(w, <<b>>)
            IN  /\ ~d.panic
                /\ d.add_attrs = <<>> /\ d.rem_attrs = <<>>
                /\ d.add_edges = <<>> /\ d.rem_edges = <<>>
                /\ d.deleted_vertices = <<>>
                /\ d.prepared_graph.vertices = G.vertices
                /\ d.prepared_graph.edges = G.edges
                /\ r.res = "Ok"
                /\ r.w = [w EXCEPT !.wt.graphs = MapInsert(@, G.id, G)]

\* a writer is open and the client holds the unchanged builder of a committed
\* graph with two vertices, an attribute and an edge between the two
DiffMinimalityWitness ==
    /\ IsSome(wr)
    /\ IsSome(bld[1]) /\ Unmutated(Unwrap(bld[1]))
    /\ LET G == Unwrap(Unwrap(bld[1]).old_graph_data).graph
       IN  /\ Len(G.vertices) = 2
           /\ \E i \in 1..2 : G.vertices[i].attrs /= <<>>
           /\ \E i \in 1..Len(G.edges) : G.edges[i].from /= G.edges[i].to

\* the arena indices of a loaded builder whose persisted vertex was not removed
Continued(b) ==
    {idx \in 0..(Len(Unwrap(b.old_graph_data).graph.vertices) - 1) :
        IsSome(GenVec_get(b.vertices, Handle(U32Zero, idx)))}

AttrKeys(attrs) == {AttrKey(attrs[i]) : i \in 1..Len(attrs)}

\* the ids reserved for, and the GraphCommitData computed from, the builders
\* that save_graphs_parallel(w, builders) is called with
SaveIds(w, builders) ==
    ReserveIds(builders, [w |-> w, ids |-> <<>>, new_vertex_count |-> <<>>]).ids
SaveData(w, builders) ==
    [i \in 1..Len(builders) |->
        commit_data_from_builder(builders[i], SaveIds(w, builders)[i][1],
                                 SaveIds(w, builders)[i][2])]

\* the GraphCommitData d of the loaded builder b uses the old global id of
\* every persisted vertex b still holds
KeepsIds(b, d) ==
    LET G == Unwrap(b.old_graph_data).graph
        OldId(h) == G.vertices[h.index + 1].id
        Kept(h) == h.generation = U32Zero /\ h.index \in Continued(b)
    IN  /\ \A idx \in Continued(b) :
               LET v == Unwrap(GenVec_get(b.vertices, Handle(U32Zero, idx)))
                   old == G.vertices[idx + 1]
               IN  /\ v.global_id = Some(old.id)
                   \* its entry in the new PreparedGraph
                   /\ \E j \in 1..Len(d.prepared_graph.vertices) :
                          d.prepared_graph.vertices[j] =
                              PreparedVertex(old.id, SortAttrs(v.attributes))
                   \* its entry in VERTEX_GRAPH_MAP is not taken out
                   /\ old.id \notin Range(d.deleted_vertices)
                   \* the index deltas of its attributes
                   /\ \A key \in AttrKeys(v.attributes) \ AttrKeys(old.attrs) :
                          <<old.id, key[1], key[2]>> \in Range(d.add_attrs)
                   /\ \A key \in AttrKeys(old.attrs) \ AttrKeys(v.attributes) :
                          <<old.id, key[1], key[2]>> \in Range(d.rem_attrs)
        \* the edges between such vertices, and with them their index deltas
        /\ \A edge \in LiveEdges(b) :
               (Kept(edge.from) /\ Kept(edge.to)) =>
                   LET t == <<OldId(edge.from), edge.label, OldId(edge.to)>>
                   IN  /\ PreparedEdge(t[1], t[2], t[3]) \in Range(d.prepared_graph.edges)
                       /\ t \in Range(d.add_edges) \/
                              PreparedEdge(t[1], t[2], t[3]) \in Range(G.edges)

\* C14: a persisted vertex that was loaded into a builder and not removed keeps
\* its global id through any edits of the builder and the save: the new
\* PreparedGraph and the index deltas carry the old id, and the id is not
\* among the deleted ones whose VERTEX_GRAPH_MAP entry goes
PersistedIdsStable ==
    [][\A ks \in BuilderVectors :
           (SaveGraphs(ks) /\ IsSome(wr')) =>
               LET builders == [i \in 1..Len(ks) |-> Unwrap(bld[ks[i]])]
               IN  \A i \in 1..Len(ks) :
                       IsSome(builders[i].old_graph_data) =>
                           KeepsIds(builders[i], SaveData(Unwrap(wr), builders)[i])]_vars

\* the second commit has removed vertex 0 of graph 0 and put a new vertex in
\* its slot; the vertex loaded next to it is still vertex 1
PersistedIdsStableWitness ==
    /\ ncommit = 2
    /\ 0 \in DOMAIN db.graphs
    /\ [i \in 1..Len(db.graphs[0].vertices) |-> db.graphs[0].vertices[i].id] = <<2, 1>>
    /\ retired = {0}

(***************************************************************************)
(* Retired vertex ids (SpecIds).                                           *)
(***************************************************************************)
\* the global ids the vertices of the builder b carry
BuilderIds(b) ==
    UNION {Range(pair[2].global_id) : pair \in Range(GenVec_iter(b.vertices))}

\* the ids that the GraphCommitData d gives to vertices of b that had none
AssignedIds(b, d) ==
    {d.prepared_graph.vertices[j].id : j \in 1..Len(d.prepared_graph.vertices)} \
        BuilderIds(b)

\* C15: once a commit has deleted the vertex of a persisted id, no save of a
\* later write transaction gives that id to a vertex that had no id
RetiredIdsNotReassigned ==
    [][\A ks \in BuilderVectors :
           (SaveGraphs(ks) /\ IsSome(wr')) =>
               LET builders == [i \in 1..Len(ks) |-> Unwrap(bld[ks[i]])]
               IN  \A i \in 1..Len(ks) :
                       AssignedIds(builders[i], SaveData(Unwrap(wr), builders)[i])
                           \cap retired = {}]_vars

\* a commit has deleted vertex 0, and a write transaction begun after it has
\* saved a builder with a new vertex, which got an id
RetiredIdsNotReassignedWitness ==
    /\ ncommit = 1
    /\ retired = {0}
    /\ IsSome(wr)
    /\ PersistedIds(Unwrap(wr).wt) \ PersistedIds(db) /= {}

(***************************************************************************)
(* The query compiler (SpecQuery).                                         *)
(***************************************************************************)
\* C16: compiling the builder that mirrors a PreparedQuery P which compile
\* produced yields P again: the same nodes in the same order, the same root
CompilerIdempotent ==
    (IsSome(decompiled) /\ IsSome(pq)) =>
        Unwrap(pq) = [res |-> "Ok", query |-> Unwrap(decompiled)]

\* C17: in a PreparedQuery that compile returned, every child index stored in
\* a node (the children of Union / Intersect, the operands of Difference, the
\* target of Edge) is below the node's own index, and root is an index of nodes
ChildrenBeforeParents ==
    (IsSome(pq) /\ Unwrap(pq).res = "Ok") =>
        LET query == Unwrap(pq).query
        IN  /\ \A i \in 1..Len(query.nodes) :
                   \A j \in 1..Len(query.nodes[i].children) :
                       query.nodes[i].children[j] < i - 1
            /\ query.root \in 0..(Len(query.nodes) - 1)

\* the builder holds two equal attribute nodes and their union, and the
\* compiled union has the one node that stands for both as its only child
ChildrenBeforeParentsWitness ==
    /\ IsSome(pq) /\ Unwrap(pq).res = "Ok"
    /\ Len(qbuilder.nodes.items) = 3
    /\ LET query == Unwrap(pq).query
       IN  /\ Len(query.nodes) = 2
           /\ query.root = 1
           /\ query.nodes[2].kind = "Union"
           /\ query.nodes[2].children = <<0>>

\* the outcome of the register_property call a RegisterProperty(alias) step makes
Registration(alias) == register_property(Unwrap(wr), alias, 0)

\* the alias is bound in PROP_NAMES as the open write transaction sees it
AliasBound(alias) == IsSome(alias) /\ Unwrap(alias) \in DOMAIN Unwrap(wr).wt.prop_names

\* every binding of `before` is a binding of `after`, to the same property id
BindingsKept(before, after) ==
    \A name \in DOMAIN before.prop_names :
        name \in DOMAIN after.prop_names /\ after.prop_names[name] = before.prop_names[name]

\* C18: register_property with an alias already bound in PROP_NAMES, by an
\* earlier call of this transaction or by a committed one, returns
\* AliasAlreadyExists and leaves PROPERTIES and PROP_NAMES as they were; no
\* step of the store or of an open write transaction rebinds a bound alias.
AliasCollisionRefused ==
    [][/\ \A alias \in Aliases :
            (RegisterProperty(alias) /\ AliasBound(alias)) =>
                /\ Registration(alias).res = "AliasAlreadyExists"
                /\ Registration(alias).id = None
                /\ Unwrap(wr').wt.properties = Unwrap(wr).wt.properties
                /\ Unwrap(wr').wt.prop_names = Unwrap(wr).wt.prop_names
                /\ prop_returned' = prop_returned
       /\ BindingsKept(db, db')
       /\ (IsSome(wr) /\ IsSome(wr')) => BindingsKept(Unwrap(wr).wt, Unwrap(wr').wt)]_vars

\* a second write transaction has been refused the alias "a" that the first
\* one committed: the refused call took property id 1 and wrote nothing
AliasCollisionRefusedWitness ==
    /\ ncommit = 1
    /\ db.prop_names = [name \in {"a"} |-> 0]
    /\ IsSome(wr)
    /\ Unwrap(wr).property_id_cursor = 2
    /\ Unwrap(wr).wt.prop_names = db.prop_names
    /\ DOMAIN Unwrap(wr).wt.properties = {0}

\* the property ids the open write transaction has returned so far
ReturnedInTransaction == DOMAIN Unwrap(wr).wt.properties \ DOMAIN Unwrap(begun).properties

\* within a transaction the ids register_property returns strictly increase
IncreasesInTransaction(alias) ==
    \A id \in ReturnedInTransaction : id < Unwrap(Registration(alias).id)

\* C19 as stated: register_property never returns a property id that an
\* earlier successful call returned, in the same or in any earlier write
\* transaction, and within a transaction the returned ids strictly increase.
PropertyIdsNeverReturnedTwice ==
    [][\A alias \in Aliases :
          (RegisterProperty(alias) /\ IsSome(Registration(alias).id)) =>
              /\ Unwrap(Registration(alias).id) \notin prop_returned
              /\ IncreasesInTransaction(alias)]_vars

\* C19 amended: register_property never returns a property id that an earlier
\* successful call returned in the same write transaction or in a write
\* transaction that committed, and within a transaction the returned ids
\* strictly increase.
PropertyIdsNeverReusedOnceCommitted ==
    [][\A alias \in Aliases :
          (RegisterProperty(alias) /\ IsSome(Registration(alias).id)) =>
              /\ Unwrap(Registration(alias).id) \notin DOMAIN db.properties
              /\ Unwrap(Registration(alias).id) \notin ReturnedInTransaction
              /\ IncreasesInTransaction(alias)]_vars

\* a second write transaction has registered a property after the first one
\* committed property 0: it was given id 1
PropertyIdsNeverReusedOnceCommittedWitness ==
    /\ ncommit = 1
    /\ DOMAIN db.properties = {0}
    /\ IsSome(wr)
    /\ DOMAIN Unwrap(wr).wt.properties = {0, 1}
    /\ prop_returned = {0, 1}

\* the plan search ran, the bitmap it computed for node idx, and the
\* places of the children of the node at idx
FoundNodes == Unwrap(pq).query.nodes
FoundBitmap(idx) == Unwrap(found).results[idx]
FoundChildren(idx) == Range(FoundNodes[idx + 1].children)
FoundKind(kind) == {idx \in 0..(Len(FoundNodes) - 1) : FoundNodes[idx + 1].kind = kind}

\* C21: the bitmap search computes for a Union node is exactly the set union
\* of the bitmaps of its children (empty for no children), so it has at
\* least as many members as each child's bitmap.
UnionIsSetUnion ==
    IsSome(found) =>
        \A idx \in FoundKind("Union") :
            /\ FoundChildren(idx) \subseteq 0..(idx - 1)
            /\ FoundBitmap(idx) =
                   {id \in SearchVertexIds : \E c \in FoundChildren(idx) : id \in FoundBitmap(c)}
            /\ \A c \in FoundChildren(idx) :
                   Cardinality(FoundBitmap(idx)) >= Cardinality(FoundBitmap(c))

\* search has evaluated a Union of two children with different non-empty
\* bitmaps, and the union is larger than both
UnionIsSetUnionWitness ==
    /\ IsSome(found)
    /\ \E idx \in FoundKind("Union") : \E c, d \in FoundChildren(idx) :
           /\ FoundBitmap(c) /= {} /\ FoundBitmap(d) /= {}
           /\ ~(FoundBitmap(c) \subseteq FoundBitmap(d))
           /\ ~(FoundBitmap(d) \subseteq FoundBitmap(c))
           /\ Cardinality(FoundBitmap(idx)) > Cardinality(FoundBitmap(c))
           /\ Cardinality(FoundBitmap(idx)) > Cardinality(FoundBitmap(d))

\* the bitmaps of the children of the Intersect node at idx, sorted by len
FoundSorted(idx) == SortByLen(ChildBitmaps(FoundNodes[idx + 1].children, Unwrap(found).results))

\* C22: the bitmap search computes for an Intersect node with at least one
\* child is exactly the set intersection of the bitmaps of all its children,
\* also when the loop stops early on an empty intermediate; the seed is a
\* child's bitmap of minimum cardinality; so the result has at most as many
\* members as each child's bitmap.
IntersectIsSetIntersection ==
    IsSome(found) =>
        \A idx \in FoundKind("Intersect") :
            FoundChildren(idx) /= {} =>
                /\ FoundChildren(idx) \subseteq 0..(idx - 1)
                /\ FoundBitmap(idx) =
                       {id \in SearchVertexIds : \A c \in FoundChildren(idx) : id \in FoundBitmap(c)}
                /\ \E c \in FoundChildren(idx) : Head(FoundSorted(idx)) = FoundBitmap(c)
                /\ \A c \in FoundChildren(idx) :
                       /\ Cardinality(Head(FoundSorted(idx))) <= Cardinality(FoundBitmap(c))
                       /\ Cardinality(FoundBitmap(idx)) <= Cardinality(FoundBitmap(c))

\* search has evaluated an Intersect of three children with non-empty
\* bitmaps where the first two in order of size share no member: the loop
\* stopped before it reached the third
IntersectIsSetIntersectionWitness ==
    /\ IsSome(found)
    /\ \E idx \in FoundKind("Intersect") :
           /\ Len(FoundSorted(idx)) = 3
           /\ \A i \in 1..3 : FoundSorted(idx)[i] /= {}
           /\ FoundSorted(idx)[1] \cap FoundSorted(idx)[2] = {}
           /\ FoundBitmap(idx) = {}

\* C23: for every builder the public builder operations can produce,
\* commit_data_from_builder returns a result: the from and the to of every
\* live edge resolve in idx_to_global and no `expect` panics.
DiffNeverPanics ==
    IsSome(bld[1]) => ~commit_data_from_builder(TheBuilder, 0, 0).panic

\* the (handle, item) pairs of the occupied slots of the two arenas
LiveVertexPairs(b) == Range(GenVec_iter(b.vertices))
LiveEdgePairs(b) == Range(GenVec_iter(b.edges))

\* edge handle e is in the outgoing (incoming) list of the live vertex h
InOutgoing(b, h, e) ==
    IsSome(GenVec_get(b.vertices, h)) /\ e \in Range(Unwrap(GenVec_get(b.vertices, h)).outgoing_edges)
InIncoming(b, h, e) ==
    IsSome(GenVec_get(b.vertices, h)) /\ e \in Range(Unwrap(GenVec_get(b.vertices, h)).incoming_edges)

\* C25: after any sequence of builder operations every live edge e is in
\* the outgoing_edges list of the vertex e.from and in the incoming_edges
\* list of the vertex e.to, and every handle in a live vertex's
\* outgoing_edges / incoming_edges list is a live edge whose from / to is
\* that vertex.
CrossLinked ==
    IsSome(bld[1]) =>
        /\ \A pair \in LiveEdgePairs(TheBuilder) :
               /\ InOutgoing(TheBuilder, pair[2].from, pair[1])
               /\ InIncoming(TheBuilder, pair[2].to, pair[1])
        /\ \A pair \in LiveVertexPairs(TheBuilder) :
               /\ \A e \in Range(pair[2].outgoing_edges) :
                      /\ IsSome(GenVec_get(TheBuilder.edges, e))
                      /\ Unwrap(GenVec_get(TheBuilder.edges, e)).from = pair[1]
               /\ \A e \in Range(pair[2].incoming_edges) :
                      /\ IsSome(GenVec_get(TheBuilder.edges, e))
                      /\ Unwrap(GenVec_get(TheBuilder.edges, e)).to = pair[1]

\* the two values SpecHash hashed have passed verify
BothVerified == IsSome(hash_out) /\ Unwrap(hash_out).ok = <<TRUE, TRUE>>
HashOf(i) == Unwrap(hash_out).hash[i]

\* C24: for values that pass verify, two integers with the same hash are
\* the same integer, the top byte of an integer's hash is 0x01 and of a
\* text's hash 0x02, and so no integer hashes to the key of a text.
HashExactAndPartitioned ==
    BothVerified =>
        /\ (hash_in[1].kind = "UInt" /\ hash_in[2].kind = "UInt" /\ HashOf(1) = HashOf(2))
               => hash_in[1] = hash_in[2]
        /\ \A i \in 1..2 : HashOf(i)[1] = (IF hash_in[i].kind = "UInt" THEN 1 ELSE 2)
        /\ hash_in[1].kind /= hash_in[2].kind => HashOf(1) /= HashOf(2)

\* the integer 11 and the text "a", whose masked hash is 11, have been
\* hashed: the keys agree in the low 56 bits and differ in the top byte
HashExactAndPartitionedWitness ==
    /\ BothVerified
    /\ hash_in = <<UInt(U64(0, 11)), Text("a")>>
    /\ HashOf(1)[2] = HashOf(2)[2]
    /\ HashOf(1) /= HashOf(2)

(***************************************************************************)
(* The ranges of vertex ids of save_graphs_parallel (SpecIds).             *)
(***************************************************************************)
\* the ids the GraphCommitData d gives to the vertices of b that carry no
\* global id: the entries of the new PreparedGraph follow the occupied slots
\* of the vertex arena in their order
NewIds(b, d) ==
    LET live == GenVec_iter(b.vertices)
    IN  {d.prepared_graph.vertices[j].id :
            j \in {i \in 1..Len(live) : live[i][2].global_id = None}}

\* the range reserved for the i-th builder of the call
RangeOf(w, builders, i) ==
    LET start_id == SaveIds(w, builders)[i][1]
    IN  start_id..(start_id + count_new_vertices(builders[i]) - 1)

\* the i-th builder of save_graphs_parallel(w, builders), which left the
\* writer `after`, was given exactly the ids of its range, the range is
\* mapped to its graph, and it shares no id with the range of another
\* builder of the call or with an id of `earlier`
RangeExact(w, builders, i, after, earlier) ==
    LET d == SaveData(w, builders)[i]
        range == RangeOf(w, builders, i)
    IN  /\ Len(d.prepared_graph.vertices) = Len(GenVec_iter(builders[i].vertices))
        /\ NewIds(builders[i], d) = range
        /\ \A id \in range :
               id \in DOMAIN after.wt.vgmap /\ after.wt.vgmap[id] = SaveIds(w, builders)[i][2]
        /\ \A j \in 1..Len(builders) : j /= i => range \cap RangeOf(w, builders, j) = {}
        /\ range \cap earlier = {}

Removed(b) == (0..(Len(Unwrap(b.old_graph_data).graph.vertices) - 1)) \ Continued(b)
Occupant(b, idx) == b.vertices.items[idx + 1].item
Refilled(b) == {idx \in Removed(b) : IsSome(Occupant(b, idx))}

\* the place of slot idx among the occupied slots of the vertex arena
PlaceOf(b, idx) == Cardinality({i \in 0..idx : IsSome(Occupant(b, i))})

\* the GraphCommitData d, computed with the reserved `range`, treats the
\* removed and refilled position idx of the loaded builder b as the claim says
RefillDiffed(b, d, range, idx) ==
    LET old == Unwrap(b.old_graph_data).graph.vertices[idx + 1]
        refill == Unwrap(Occupant(b, idx))
        entry == d.prepared_graph.vertices[PlaceOf(b, idx)]
        fresh == entry.id
    IN  /\ old.id \in Range(d.deleted_vertices)
        /\ \A key \in AttrKeys(old.attrs) : <<old.id, key[1], key[2]>> \in Range(d.rem_attrs)
        /\ PlaceOf(b, idx) <= Len(d.prepared_graph.vertices)
        /\ fresh /= old.id
        /\ fresh \in range
        /\ fresh \notin BuilderIds(b)
        /\ entry = PreparedVertex(fresh, SortAttrs(refill.attributes))
        /\ \A key \in AttrKeys(refill.attributes) :
               <<fresh, key[1], key[2]>> \in Range(d.add_attrs)
        /\ \A i \in 1..Len(d.add_attrs) : d.add_attrs[i][1] /= old.id
        /\ \A i \in 1..Len(d.rem_attrs) : d.rem_attrs[i][1] /= fresh

\* C27: when a loaded builder has a persisted vertex removed and its slot
\* refilled by a new vertex, the diff puts the old global id in
\* deleted_vertices, emits rem_attrs for every old attribute under the old
\* id, gives the refill a fresh global id, different from the old one, and
\* emits add_attrs for the attributes of the refill under the fresh id only.
RefillGetsFreshId ==
    [][\A ks \in BuilderVectors :
           (SaveGraphs(ks) /\ IsSome(wr')) =>
               LET builders == [i \in 1..Len(ks) |-> Unwrap(bld[ks[i]])]
               IN  \A i \in 1..Len(ks) :
                       IsSome(builders[i].old_graph_data) =>
                           \A idx \in Refilled(builders[i]) :
                               RefillDiffed(builders[i], SaveData(Unwrap(wr), builders)[i],
                                            RangeOf(Unwrap(wr), builders, i), idx)]_vars

\* the commit of this run has replaced vertex 0, which carried (0, 1), by a
\* new vertex in its slot that carries (0, 2): the new vertex has id 2, the
\* old id is retired and only the bitmap of (0, 2) is left, listing id 2
RefillGetsFreshIdWitness ==
    /\ ncommit = 1
    /\ 0 \in DOMAIN db.graphs
    /\ Len(db.graphs[0].vertices) = 2
    /\ db.graphs[0].vertices[1] = PreparedVertex(2, <<<<0, UInt(U64(0, 2))>>>>)
    /\ retired = {0}
    /\ db.scalar = [key \in {AttrKey(<<0, UInt(U64(0, 2))>>)} |-> {2}]

\* vertex id v is nowhere in the tables: not in VERTEX_GRAPH_MAP, not in a
\* blob as a vertex or as an endpoint of an edge, in no bitmap of SCALAR,
\* FORWARD or REVERSE, and the first component of no FORWARD or REVERSE key
Gone(tables, v) ==
    /\ v \notin DOMAIN tables.vgmap
    /\ v \notin PersistedIds(tables)
    /\ \A g \in DOMAIN tables.graphs : \A j \in 1..Len(tables.graphs[g].edges) :
           tables.graphs[g].edges[j].from /= v /\ tables.graphs[g].edges[j].to /= v
    /\ \A key \in DOMAIN tables.scalar : v \notin tables.scalar[key]
    /\ \A key \in DOMAIN tables.forward : key[1] /= v /\ v \notin tables.forward[key]
    /\ \A key \in DOMAIN tables.reverse : key[1] /= v /\ v \notin tables.reverse[key]

\* C28: after a loaded builder in which the persisted vertex v was removed
\* is saved and the transaction commits, v has no entry in VERTEX_GRAPH_MAP,
\* is listed in no blob as a vertex or an edge endpoint, is a member of no
\* SCALAR, FORWARD or REVERSE bitmap and the first component of no FORWARD
\* or REVERSE key.
RemovedVertexGone ==
    [][(Commit /\ IsSome(track)) =>
           \A v \in Unwrap(track).deleted : Gone(db', v)]_vars

(***************************************************************************)
(* The index tables after a commit (SpecRefill).                           *)
(***************************************************************************)
\* no key of the index table maps to an empty bitmap
NoEmptyBitmap(table) == \A key \in DOMAIN table : table[key] /= {}

\* the keys whose bitmap in the write-back cache is empty
Emptied(cache) == {key \in DOMAIN cache : cache[key] = {}}

\* C29: after a commit no key of SCALAR, FORWARD or REVERSE maps to an
\* empty bitmap: a key whose cached bitmap became empty during the
\* transaction is not in the table after the commit.
CommitDropsEmptyBitmaps ==
    [][Commit =>
           /\ NoEmptyBitmap(db'.scalar) /\ NoEmptyBitmap(db'.forward) /\ NoEmptyBitmap(db'.reverse)
           /\ Emptied(Unwrap(wr).scalar_cache) \cap DOMAIN db'.scalar = {}
           /\ Emptied(Unwrap(wr).forward_cache) \cap DOMAIN db'.forward = {}
           /\ Emptied(Unwrap(wr).reverse_cache) \cap DOMAIN db'.reverse = {}]_vars

\* the commit of this run has removed vertex 0, and with it the attribute
\* and the two edges of the graph: the bitmaps of (0, hash(1)) in SCALAR and
\* of the keys of FORWARD and REVERSE became empty, and the tables hold no key
CommitDropsEmptyBitmapsWitness ==
    /\ ncommit = 1
    /\ retired = {0}
    /\ 0 \in DOMAIN db.graphs /\ Len(db.graphs[0].vertices) = 1
    /\ db.scalar = EmptyMap /\ db.forward = EmptyMap /\ db.reverse = EmptyMap

(***************************************************************************)
(* The builder that load_graph returns (SpecRefill).                       *)
(***************************************************************************)
\* arena slot i - 1 of the builder holds, at generation 0, a live vertex with
\* the global id and the attributes of the persisted vertex at place i
VertexAtPlace(b, graph, i) ==
    /\ i <= Len(b.vertices.items)
    /\ b.vertices.items[i].generation = U32Zero
    /\ IsSome(b.vertices.items[i].item)
    /\ Unwrap(b.vertices.items[i].item).global_id = Some(graph.vertices[i].id)
    /\ Unwrap(b.vertices.items[i].item).attributes = graph.vertices[i].attrs
    /\ GenVec_get(b.vertices, Handle(U32Zero, i - 1)) = b.vertices.items[i].item

\* the handles of the slots that hold the persisted vertices with global id `id`
HandlesOf(graph, id) ==
    {Handle(U32Zero, i - 1) : i \in {i \in 1..Len(graph.vertices) : graph.vertices[i].id = id}}

\* arena slot j - 1 of the builder holds, at generation 0, a live edge between
\* the handles of the from and to vertices of the persisted edge at place j
EdgeAtPlace(b, graph, j) ==
    /\ j <= Len(b.edges.items)
    /\ b.edges.items[j].generation = U32Zero
    /\ IsSome(b.edges.items[j].item)
    /\ Unwrap(b.edges.items[j].item).from \in HandlesOf(graph, graph.edges[j].from)
    /\ Unwrap(b.edges.items[j].item).to \in HandlesOf(graph, graph.edges[j].to)

PositionalLoad(b, graph) ==
    /\ \A i \in 1..Len(graph.vertices) : VertexAtPlace(b, graph, i)
    /\ \A j \in 1..Len(graph.edges) : EdgeAtPlace(b, graph, j)
    /\ count_new_vertices(b) = 0

\* C30: the builder that load_graph returns for a persisted graph holds the
\* vertex at place i of the persisted array in arena slot i at generation 0,
\* with its global id and attributes, and the edge at place j in edge slot j
\* at generation 0, between the handles of its persisted from and to
\* vertices; its new-vertex count is 0.
LoadIsPositional ==
    [][\A graph_id \in GraphIds, k \in 1..MaxBuilders :
           LoadCommitted(graph_id, k) => PositionalLoad(Unwrap(bld'[k]), db.graphs[graph_id])]_vars

\* a graph committed in this run, with its two edges and a second attribute
\* on one vertex, has been loaded and the builder is as load_graph left it
LoadIsPositionalWitness ==
    /\ ncommit = 1
    /\ IsSome(bld[1]) /\ IsSome(TheBuilder.old_graph_data)
    /\ LET graph == Unwrap(TheBuilder.old_graph_data).graph
       IN  /\ graph = db.graphs[graph.id]
           /\ Len(graph.edges) = 2
           /\ \E i \in 1..Len(graph.vertices) : Len(graph.vertices[i].attrs) = 2
           /\ Len(TheBuilder.vertices.items) = Len(graph.vertices)
           /\ Len(TheBuilder.edges.items) = 2
           /\ PositionalLoad(TheBuilder, graph)

(***************************************************************************)
(* The diff workers of save_graphs_parallel (SpecParallel).                *)
(***************************************************************************)
\* what the call that returns in this step leaves: the writer, or None and
\* the tables of the aborted transaction when it panicked
ParOutcome(r) ==
    IF r.res = "Ok" THEN wr' = Some(r.w) /\ db' = db
    ELSE wr' = None /\ db' = abort(db, r.w)

\* C31: whatever the order in which the diff workers finish, the call
\* leaves the writer (GRAPHS, VERTEX_GRAPH_MAP and the three index caches
\* with it) as the diffs run one by one in builder order leave it.
ParallelAsSequential ==
    [][ParJoin => ParOutcome(save_graphs_parallel(Unwrap(par).w, Unwrap(par).builders))]_vars

\* a call on two copies of graph 0, one of them edited, has returned; the
\* worker of the second builder finished first, and the order of the two
\* GraphCommitData matters: folded the other way round they leave another
\* writer
ParallelAsSequentialWitness ==
    /\ IsSome(par) /\ Unwrap(par).joined /\ IsSome(wr)
    /\ Unwrap(par).order = <<2, 1>>
    /\ Unwrap(wr) = FoldAll(Unwrap(par).w1, Collect(Unwrap(par).results, Unwrap(par).order))
    /\ Unwrap(wr) /= FoldAll(Unwrap(par).w1, CollectAsCompleted(Unwrap(par).results, Unwrap(par).order))

(***************************************************************************)
(* Common subexpressions in the compiler (SpecQuery).                      *)
(***************************************************************************)
\* the arena indices of the builder nodes that compile visits
VisitedIndices(qb) == {h.index : h \in Range(get_build_order(qb, Unwrap(qb.root)))}

StrictlyAscending(ids) == \A j \in 1..(Len(ids) - 1) : ids[j] < ids[j + 1]

\* C32: in a PreparedQuery that compile returned no two nodes are equal,
\* the child list of every Union and Intersect is strictly ascending, and
\* the list has at most one node per builder node that compile visited (a
\* builder node with several parents is emitted once).
NoCommonSubexpressions ==
    (IsSome(pq) /\ Unwrap(pq).res = "Ok") =>
        LET nodes == Unwrap(pq).query.nodes
        IN  /\ \A i, j \in 1..Len(nodes) : i /= j => nodes[i] /= nodes[j]
            /\ \A i \in 1..Len(nodes) :
                   nodes[i].kind \in {"Union", "Intersect"} => StrictlyAscending(nodes[i].children)
            /\ Len(nodes) <= Cardinality(VisitedIndices(qbuilder))

\* a diamond: the leaf is a child of the union and of the root, which names
\* the union before the leaf; the leaf is emitted once and the children of
\* the root are in ascending order
NoCommonSubexpressionsWitness ==
    /\ IsSome(pq) /\ Unwrap(pq).res = "Ok"
    /\ Len(qbuilder.nodes.items) = 3
    /\ qbuilder.root = Some(Handle(U32Zero, 2))
    /\ qbuilder.nodes.items[3].item =
           Some(QNode("Intersect", <<Handle(U32Zero, 1), Handle(U32Zero, 0)>>, 0, U64(0, 0), "", 0, 0))
    /\ qbuilder.nodes.items[2].item =
           Some(QNode("Union", <<Handle(U32Zero, 0)>>, 0, U64(0, 0), "", 0, 0))
    /\ LET nodes == Unwrap(pq).query.nodes
       IN  /\ Len(nodes) = 3
           /\ nodes[1].kind = "Attribute"
           /\ nodes[2].children = <<0>>
           /\ nodes[3].children = <<0, 1>>

\* the places of the plan reached from place i through child indices
RECURSIVE PlanReach(_, _)
PlanReach(nodes, i) ==
    {i} \cup UNION {PlanReach(nodes, c) : c \in Range(nodes[i + 1].children)}

\* C37: in a PreparedQuery that compile returned the root is the last node
\* of the list and every node of the list is reached from the root through
\* child indices.
RootIsLastAndReachesAll ==
    (IsSome(pq) /\ Unwrap(pq).res = "Ok") =>
        LET query == Unwrap(pq).query
        IN  /\ query.root = Len(query.nodes) - 1
            /\ PlanReach(query.nodes, query.root) = 0..(Len(query.nodes) - 1)

\* the root of the builder is its second node, a union over the first; the
\* third node is not under the root and the plan has two nodes
RootIsLastAndReachesAllWitness ==
    /\ IsSome(pq) /\ Unwrap(pq).res = "Ok"
    /\ Len(qbuilder.nodes.items) = 3
    /\ qbuilder.root = Some(Handle(U32Zero, 1))
    /\ qbuilder.nodes.items[2].item =
           Some(QNode("Union", <<Handle(U32Zero, 0)>>, 0, U64(0, 0), "", 0, 0))
    /\ Unwrap(qbuilder.nodes.items[3].item).kind = "Attribute"
    /\ Unwrap(qbuilder.nodes.items[3].item) /= Unwrap(qbuilder.nodes.items[1].item)
    /\ Len(Unwrap(pq).query.nodes) = 2
    /\ Unwrap(pq).query.root = 1

(***************************************************************************)
(* The meaning of a query (SpecMeaning).                                   *)
(***************************************************************************)
\* the vertices one hop from the set `ids` in an index table, under a label
Image(table, ids, label) ==
    UNION {table[key] : key \in {k \in DOMAIN table : k[1] \in ids /\ k[2] = label}}

\* the vertex set the builder node at `handle` denotes over the tables rt:
\* an Attribute node the vertices SCALAR lists for the property and the hash
\* of the value, an Edge node the image of its target set in FORWARD
\* (Outgoing) or REVERSE (Incoming), a Union the union and an Intersect the
\* intersection of its children (no vertex for a group without children), a
\* Difference its first operand minus its second
RECURSIVE Denotes(_, _, _)
Denotes(qb, rt, handle) ==
    LET node == Unwrap(GenVec_get(qb.nodes, handle))
        sets == [i \in 1..Len(node.children) |-> Denotes(qb, rt, node.children[i])]
    IN  CASE node.kind = "Attribute" ->
                 LET key == <<node.attr, Primitive_hash(node.value)>>
                 IN  IF key \in DOMAIN rt.scalar THEN rt.scalar[key] ELSE {}
          [] node.kind = "Edge" ->
                 Image(IF node.dir = "Outgoing" THEN rt.forward ELSE rt.reverse,
                       sets[1], node.label)
          [] node.kind = "Union" -> UNION Range(sets)
          [] node.kind = "Intersect" ->
                 IF sets = <<>> THEN {}
                 ELSE {v \in sets[1] : \A i \in 1..Len(sets) : v \in sets[i]}
          [] node.kind = "Difference" -> sets[1] \ sets[2]

\* C33: search on the PreparedQuery that compile returned for a builder
\* returns the vertices that the root of the builder denotes over the
\* tables of the reader, in ascending order.
CompilePreservesMeaning ==
    (IsSome(found) /\ IsSome(pq) /\ IsSome(qbuilder.root)) =>
        Unwrap(found).out = SortedSeq(Denotes(qbuilder, Unwrap(found).rt, Unwrap(qbuilder.root)))

\* a diamond over the three vertices: the root is the difference of the
\* vertices one hop along label 0 from those that carry the value 1, minus
\* those that carry the value 1; search returned vertex 2, and the
\* difference taken the other way round is vertex 0
CompilePreservesMeaningWitness ==
    /\ IsSome(found) /\ IsSome(pq) /\ Unwrap(pq).res = "Ok"
    /\ Unwrap(found).rt.scalar = ChainTables.scalar
    /\ Unwrap(found).rt.forward = ChainTables.forward
    /\ Len(qbuilder.nodes.items) = 3
    /\ qbuilder.root = Some(Handle(U32Zero, 2))
    /\ qbuilder.nodes.items[1].item =
           Some(QNode("Attribute", <<>>, 0, UInt(U64(0, 1)), "", 0, 0))
    /\ qbuilder.nodes.items[2].item =
           Some(QNode("Edge", <<Handle(U32Zero, 0)>>, 0, U64(0, 0), "Outgoing", 0, 0))
    /\ qbuilder.nodes.items[3].item =
           Some(QNode("Difference", <<Handle(U32Zero, 1), Handle(U32Zero, 0)>>, 0, U64(0, 0), "", 0, 0))
    /\ Unwrap(found).out = <<2>>

(***************************************************************************)
(* The free list of the arena (SpecGenVec).                                *)
(***************************************************************************)
\* the indices of the slots that hold no item
EmptySlots(self) == {i - 1 : i \in {i \in 1..Len(self.items) : self.items[i].item = None}}

\* what add(item) does to the arena when it takes it from `before` to `after`
AddReusesLastFreed(before, after, item) ==
    IF before.freed /= <<>>
    THEN LET idx == Last(before.freed)
         IN  /\ after.freed = PopBack(before.freed)
             /\ after.items = [before.items EXCEPT ![idx + 1].item = Some(item)]
    ELSE /\ after.freed = <<>>
         /\ after.items = Append(before.items, Slot(Some(item), U32Zero))

\* C34: add fills the slot freed last whenever the free list is not empty
\* and appends a slot at generation 0 only when it is empty; the vector of
\* slots never shrinks; once an add has left no slot empty the free list is
\* empty.
AddFillsFreedSlots ==
    [][/\ Len(gv'.items) >= Len(gv.items)
       /\ \A item \in GvItems :
              GvAdd(item) =>
                  /\ AddReusesLastFreed(gv, gv', item)
                  /\ EmptySlots(gv') = {} => gv'.freed = <<>>]_vars

\* C39: the free list holds the indices of the empty slots, each of them
\* once, and the generation of a slot is the number of remove calls that
\* returned its item.
FreeListExact ==
    ~gv_panicked =>
        /\ Range(gv.freed) = EmptySlots(gv)
        /\ Len(gv.freed) = Cardinality(EmptySlots(gv))
        /\ \A i \in 1..Len(gv.items) : gv.items[i].generation = gv_removals[i]

(***************************************************************************)
(* Saved queries (Spec).                                                   *)
(***************************************************************************)
\* the three query tables of a set of tables
QueryTables(tables) == <<tables.query_names, tables.query_metas, tables.queries>>

\* C35: a save_query call that returns an error leaves QUERY_NAMES,
\* QUERY_METAS and QUERIES of the write transaction as they were, and in the
\* committed tables every alias of QUERY_NAMES maps to a query id that has
\* an entry in QUERIES.
FailedSaveQueryWritesNothing ==
    [][/\ \A query \in QueryInputs, alias \in Aliases :
              (SaveQuery(query, alias) /\ save_query(Unwrap(wr), query, alias, 0).res /= "Ok") =>
                  QueryTables(Unwrap(wr').wt) = QueryTables(Unwrap(wr).wt)
       /\ \A name \in DOMAIN db'.query_names : db'.query_names[name] \in DOMAIN db'.queries]_vars

(***************************************************************************)
(* The new-vertex counter of a builder (SpecIds).                          *)
(***************************************************************************)
\* the slots of the vertex arena that hold a vertex without a global id
FreshSlots(b) ==
    {i \in 1..Len(b.vertices.items) :
        IsSome(b.vertices.items[i].item) /\ Unwrap(b.vertices.items[i].item).global_id = None}

CountsFresh(b) == count_new_vertices(b) = Cardinality(FreshSlots(b))

StagedValues(b) ==
    UNION {{pair[2].attributes[j][2] : j \in 1..Len(pair[2].attributes)} :
               pair \in Range(GenVec_iter(b.vertices))}

\* the hash carries the tag of the unsigned integers over the 56 bits of n
TaggedUInt(value) == Primitive_hash(value) = U64(1, value.n[2])

\* C38: every unsigned integer a staged vertex holds as an attribute value
\* is below 2^56, so that its hash is the value under the tag of the
\* unsigned integers.
StagedValuesVerified ==
    IsSome(bld[1]) =>
        \A value \in StagedValues(TheBuilder) :
            value.kind = "UInt" => ~TooBig(value) /\ TaggedUInt(value)

====
